---- MODULE Spec2Model ----
(***************************************************************************)
(* Coordination core of tokligence-works: the resource admission           *)
(* controller (ParallelExecutor), the task tracker (TaskManager) and the   *)
(* turn scheduler (Scheduler), each as a state machine whose actions are   *)
(* the public methods of the class, and the control loop (Orchestrator)    *)
(* that drives them, whose actions are the stretches of code between two   *)
(* awaits.                                                                 *)
(***************************************************************************)
EXTENDS Integers, Sequences, FiniteSets, TLC

VARIABLES
  activeAgents,       \* ParallelExecutor.activeAgents : Set<string>
  resourceLocks,      \* ParallelExecutor.resourceLocks : Map<string, ResourceLock>
  maxParallelAgents,  \* ParallelExecutor.maxParallelAgents
  tasks,              \* TaskManager.tasks : Map<string, Task>
  agentTasks,         \* TaskManager.agentTasks : Map<string, Set<string>>
  teamIndex,          \* Scheduler.teamIndex : Map<string, TeamMemberConfig>
  teamLeadId,         \* Scheduler.teamLeadId
  queue,              \* Scheduler.queue : ScheduledTask[]
  now,                \* the value Date.now() returns
  lastOp,             \* the call that made the last step, with its arguments and result
  scen,               \* position and results of the dependency-gating scenario
  teamConfig,         \* Orchestrator.teamConfig.members
  agents,             \* AgentManager.agents : Map<string, Agent>, the kind of each agent
  processing,         \* Orchestrator.processing
  awaitingHumanInput, \* Orchestrator.awaitingHumanInput
  lastAgentMessages,  \* Orchestrator.lastAgentMessages : Map<string, string>
  simulatedFallback,  \* Orchestrator.simulatedFallback : Set<string>
  eventLog,           \* SessionManager events, in append order
  loops,              \* the runLoop() calls in progress, each suspended at an await
  spoken,             \* history: the sanitized text of each agent's latest output
  calls,              \* how many agent invocations and human inputs there have been
  topics,             \* SessionManager.state.topics : Map<string, TopicState>
  tools,              \* ToolService.tools : Map<string, Tool>, the registered names
  auditTrail,         \* ToolService.auditTrail : ToolResult[], references into heap
  heap,               \* the ToolResult objects there are
  executing,          \* the executeTool calls awaiting tool.execute()
  listed              \* the array the latest getAuditTrail() returned, held by the caller

peVars    == <<activeAgents, resourceLocks, maxParallelAgents>>
tmVars    == <<tasks, agentTasks>>
schedVars == <<teamIndex, teamLeadId, queue>>
orchVars  == <<teamConfig, agents, processing, awaitingHumanInput, lastAgentMessages,
               simulatedFallback, eventLog, loops, spoken, calls>>
vars      == <<activeAgents, resourceLocks, maxParallelAgents, tasks, agentTasks,
               teamIndex, teamLeadId, queue, now, lastOp, scen,
               teamConfig, agents, processing, awaitingHumanInput, lastAgentMessages,
               simulatedFallback, eventLog, loops, spoken, calls, topics,
               tools, auditTrail, heap, executing, listed>>
toolVars  == <<tools, auditTrail, heap, executing, listed>>

\* the fields of an Orchestrator constructed for the given members, before
\* initialize() is called
OrchestratorNew(members) ==
  /\ teamConfig = members
  /\ agents = {}
  /\ processing = FALSE
  /\ awaitingHumanInput = FALSE
  /\ lastAgentMessages = {}
  /\ simulatedFallback = {}
  /\ eventLog = <<>>
  /\ loops = <<>>
  /\ spoken = {}
  /\ calls = [agent |-> 0, human |-> 0]

\* no Orchestrator takes part
NoOrchestrator == OrchestratorNew(<<>>)

\* no SessionManager is looked at
NoSession == topics = <<>>

\* no ToolService is looked at
NoToolService ==
  /\ tools = {}
  /\ auditTrail = <<>>
  /\ heap = <<>>
  /\ executing = {}
  /\ listed = <<>>

-----------------------------------------------------------------------------
(* Bounds of the model *)

NumAgents == 2      \* agents calling the ParallelExecutor
NumPaths  == 2      \* distinct file paths in tool arguments

AgentName == <<"lead", "senior-dev", "junior-dev", "qa", "solo", "extra">>
PathName  == <<"a.ts", "b.ts", "c.ts", "d.ts">>

Agents == {AgentName[i] : i \in 1..NumAgents}
Paths  == {PathName[i] : i \in 1..NumPaths}

NoAgent == "<none>"

-----------------------------------------------------------------------------
(* ParallelExecutor *)

DefaultMaxParallelAgents == 3

\* args.path as the tool call carries it: absent, the empty string, or a path
Undefined == "<undefined>"
PathVals  == {Undefined, ""} \cup Paths
ToolNames == {"file_system", "terminal"}
ToolArgs  == [path : PathVals]

\* JavaScript truthiness of a string-or-undefined value
Truthy(v) == v # Undefined /\ v # ""

\* Map<string, ResourceLock> as the set of its values, keyed by resourceId.
\* A lock carries resourceId and agentId; acquiredAt is a stamp no code reads.
MapHas(m, k)      == \E l \in m : l.resourceId = k
MapGet(m, k)      == CHOOSE l \in m : l.resourceId = k
MapDelete(m, k)   == {l \in m : l.resourceId # k}
MapSet(m, k, v)   == MapDelete(m, k) \cup {v}
LockedKeys(m)     == {l.resourceId : l \in m}
Owners(m, k)      == {l.agentId : l \in {x \in m : x.resourceId = k}}

\* a plausible slip: the capacity test off by one
canAgentStart_OffByOne(active, maxP, agentId) ==
  IF agentId \in active THEN FALSE
  ELSE IF Cardinality(active) > maxP THEN FALSE
  ELSE TRUE

canAgentStart(active, maxP, agentId) ==
  IF agentId \in active THEN FALSE
  ELSE IF Cardinality(active) >= maxP THEN FALSE
  ELSE TRUE

\* a plausible slip: the owner comparison dropped, any caller takes the key
acquireLock_NoOwnerCheck(locks, resourceId, agentId) ==
  [ret   |-> TRUE,
   locks |-> MapSet(locks, resourceId,
                    [resourceId |-> resourceId, agentId |-> agentId])]

acquireLock(locks, resourceId, agentId) ==
  IF MapHas(locks, resourceId) /\ MapGet(locks, resourceId).agentId # agentId
  THEN [ret |-> FALSE, locks |-> locks]
  ELSE [ret   |-> TRUE,
        locks |-> MapSet(locks, resourceId,
                         [resourceId |-> resourceId, agentId |-> agentId])]

releaseLock(locks, resourceId, agentId) ==
  IF ~MapHas(locks, resourceId) \/ MapGet(locks, resourceId).agentId # agentId
  THEN [ret |-> FALSE, locks |-> locks]
  ELSE [ret |-> TRUE, locks |-> MapDelete(locks, resourceId)]

extractResourcesFromTool(toolName, args) ==
  IF toolName = "file_system" /\ Truthy(args.path)
  THEN <<"file:" \o args.path>>
  ELSE <<>>

\* a plausible slip: the check is left to the acquisition that follows it
canExecuteTool_Always(locks, agentId, toolName, args) == TRUE

canExecuteTool(locks, agentId, toolName, args) ==
  LET resources == extractResourcesFromTool(toolName, args)
  IN \A i \in 1..Len(resources) :
       ~(MapHas(locks, resources[i]) /\ MapGet(locks, resources[i]).agentId # agentId)

RECURSIVE releaseEach(_, _, _, _)
releaseEach(locks, resources, i, agentId) ==
  IF i > Len(resources) THEN locks
  ELSE releaseEach(releaseLock(locks, resources[i], agentId).locks, resources, i + 1, agentId)

releaseToolLocks(locks, agentId, toolName, args) ==
  releaseEach(locks, extractResourcesFromTool(toolName, args), 1, agentId)

RECURSIVE acquireEach(_, _, _, _, _, _)
acquireEach(locks, resources, i, agentId, toolName, args) ==
  IF i > Len(resources) THEN [ret |-> TRUE, locks |-> locks]
  ELSE LET r == acquireLock(locks, resources[i], agentId)
       IN IF ~r.ret
          THEN [ret |-> FALSE, locks |-> releaseToolLocks(r.locks, agentId, toolName, args)]
          ELSE acquireEach(r.locks, resources, i + 1, agentId, toolName, args)

\* a plausible slip: the rollback drops every lock of the caller, not the derived keys
acquireToolLocks_RollbackAll(locks, agentId, toolName, args) ==
  LET r == acquireEach(locks, extractResourcesFromTool(toolName, args), 1,
                       agentId, toolName, args)
  IN IF r.ret THEN r
     ELSE [ret |-> FALSE, locks |-> {l \in r.locks : l.agentId # agentId}]

acquireToolLocks(locks, agentId, toolName, args) ==
  acquireEach(locks, extractResourcesFromTool(toolName, args), 1, agentId, toolName, args)

\* a plausible slip: the agent leaves the active set but its locks stay
markAgentIdle_KeepLocks(active, locks, agentId) ==
  [active |-> active \ {agentId}, locks |-> locks]

markAgentIdle(active, locks, agentId) ==
  [active |-> active \ {agentId},
   locks  |-> {l \in locks : l.agentId # agentId}]

\* resource ids passed to acquireLock / releaseLock directly
ResourceIds == {"file:" \o p : p \in Paths}

MarkAgentActive(a) ==
  /\ activeAgents' = IF canAgentStart(activeAgents, maxParallelAgents, a)
                     THEN activeAgents \cup {a} ELSE activeAgents
  /\ lastOp' = [op |-> "markAgentActive", agent |-> a,
                ret |-> canAgentStart(activeAgents, maxParallelAgents, a)]
  /\ UNCHANGED <<resourceLocks, maxParallelAgents>>

MarkAgentIdle(a) ==
  LET r == markAgentIdle(activeAgents, resourceLocks, a)
  IN /\ activeAgents' = r.active
     /\ resourceLocks' = r.locks
     /\ lastOp' = [op |-> "markAgentIdle", agent |-> a]
     /\ UNCHANGED maxParallelAgents

AcquireLock(k, a) ==
  LET r == acquireLock(resourceLocks, k, a)
  IN /\ resourceLocks' = r.locks
     /\ lastOp' = [op |-> "acquireLock", agent |-> a, resourceId |-> k, ret |-> r.ret]
     /\ UNCHANGED <<activeAgents, maxParallelAgents>>

ReleaseLock(k, a) ==
  LET r == releaseLock(resourceLocks, k, a)
  IN /\ resourceLocks' = r.locks
     /\ lastOp' = [op |-> "releaseLock", agent |-> a, resourceId |-> k, ret |-> r.ret]
     /\ UNCHANGED <<activeAgents, maxParallelAgents>>

AcquireToolLocks(a, tool, args) ==
  LET r == acquireToolLocks(resourceLocks, a, tool, args)
  IN /\ resourceLocks' = r.locks
     /\ lastOp' = [op |-> "acquireToolLocks", agent |-> a, tool |-> tool,
                   args |-> args, ret |-> r.ret]
     /\ UNCHANGED <<activeAgents, maxParallelAgents>>

ReleaseToolLocks(a, tool, args) ==
  /\ resourceLocks' = releaseToolLocks(resourceLocks, a, tool, args)
  /\ lastOp' = [op |-> "releaseToolLocks", agent |-> a, tool |-> tool, args |-> args]
  /\ UNCHANGED <<activeAgents, maxParallelAgents>>

InitPE ==
  /\ activeAgents = {}
  /\ resourceLocks = {}
  /\ maxParallelAgents = DefaultMaxParallelAgents
  /\ tasks = <<>>
  /\ agentTasks = <<>>
  /\ teamIndex = <<>>
  /\ teamLeadId = NoAgent
  /\ queue = <<>>
  /\ now = 0
  /\ lastOp = [op |-> "new"]
  /\ scen = [pc |-> "off"]
  /\ NoOrchestrator
  /\ NoSession
  /\ NoToolService

PEFrame == UNCHANGED <<tmVars, schedVars, now, scen, orchVars, topics, toolVars>>

NextPE ==
  \/ \E a \in Agents : MarkAgentActive(a) /\ PEFrame
  \/ \E a \in Agents : MarkAgentIdle(a) /\ PEFrame
  \/ \E k \in ResourceIds, a \in Agents : AcquireLock(k, a) /\ PEFrame
  \/ \E k \in ResourceIds, a \in Agents : ReleaseLock(k, a) /\ PEFrame
  \/ \E a \in Agents, tool \in ToolNames, args \in ToolArgs :
       AcquireToolLocks(a, tool, args) /\ PEFrame
  \/ \E a \in Agents, tool \in ToolNames, args \in ToolArgs :
       ReleaseToolLocks(a, tool, args) /\ PEFrame

SpecPE == InitPE /\ [][NextPE]_vars

CanAgentStart(a) ==
  /\ lastOp' = [op |-> "canAgentStart", agent |-> a,
                ret |-> canAgentStart(activeAgents, maxParallelAgents, a)]
  /\ UNCHANGED <<activeAgents, resourceLocks, maxParallelAgents>>

\* new ParallelExecutor(maxParallelAgents) for a maximum up to the default
Capacities == 0..DefaultMaxParallelAgents

InitCapacity ==
  /\ activeAgents = {}
  /\ resourceLocks = {}
  /\ maxParallelAgents \in Capacities
  /\ tasks = <<>>
  /\ agentTasks = <<>>
  /\ teamIndex = <<>>
  /\ teamLeadId = NoAgent
  /\ queue = <<>>
  /\ now = 0
  /\ lastOp = [op |-> "new"]
  /\ scen = [pc |-> "off"]
  /\ NoOrchestrator
  /\ NoSession
  /\ NoToolService

NextCapacity ==
  \/ \E a \in Agents : CanAgentStart(a) /\ PEFrame
  \/ \E a \in Agents : MarkAgentActive(a) /\ PEFrame
  \/ \E a \in Agents : MarkAgentIdle(a) /\ PEFrame
  \/ \E a \in Agents, tool \in ToolNames, args \in ToolArgs :
       AcquireToolLocks(a, tool, args) /\ PEFrame

SpecCapacity == InitCapacity /\ [][NextCapacity]_vars

-----------------------------------------------------------------------------
(* Claims about the ParallelExecutor *)

\* the resource keys an acquireToolLocks / releaseToolLocks step was about
DerivedKeys(op) ==
  LET rs == extractResourcesFromTool(op.tool, op.args)
  IN {rs[i] : i \in 1..Len(rs)}

\* the key(s) a lock request asked for
RequestedKeys(op) ==
  IF op.op = "acquireLock" THEN {op.resourceId}
  ELSE IF op.op = "acquireToolLocks" THEN DerivedKeys(op)
  ELSE {}

\* C1: under any interleaving of acquireLock, acquireToolLocks, releaseLock,
\* releaseToolLocks and markAgentIdle, every resource key has at most one
\* owner; a request for a key owned by a different agent returns false and
\* leaves the owner in place; a request by the owner returns true and leaves
\* it the owner.
C1_OneOwnerPerKey ==
  [][ /\ \A k \in LockedKeys(resourceLocks') : Cardinality(Owners(resourceLocks', k)) = 1
      /\ \A k \in RequestedKeys(lastOp') :
           MapHas(resourceLocks, k) =>
             LET owner == MapGet(resourceLocks, k).agentId
             IN /\ Owners(resourceLocks', k) = {owner}
                /\ lastOp'.ret = (lastOp'.agent = owner)
    ]_vars

\* a request by a non-owner has just been refused while the owner holds the key
C1_Witness ==
  /\ lastOp.op \in {"acquireLock", "acquireToolLocks"}
  /\ lastOp.ret = FALSE
  /\ \E k \in RequestedKeys(lastOp) :
       MapHas(resourceLocks, k) /\ MapGet(resourceLocks, k).agentId # lastOp.agent

\* C2: acquireToolLocks is all-or-nothing: if a derived key is held by a
\* different agent it returns false and the lock table is as before the call,
\* otherwise it returns true and the caller owns every derived key.
C2_AllOrNothing ==
  [][ lastOp'.op = "acquireToolLocks" =>
        LET keys     == DerivedKeys(lastOp')
            conflict == \E k \in keys :
                          MapHas(resourceLocks, k)
                          /\ MapGet(resourceLocks, k).agentId # lastOp'.agent
        IN IF conflict
           THEN lastOp'.ret = FALSE /\ resourceLocks' = resourceLocks
           ELSE /\ lastOp'.ret = TRUE
                /\ \A k \in keys : Owners(resourceLocks', k) = {lastOp'.agent}
                /\ \A l \in resourceLocks : l.resourceId \notin keys => l \in resourceLocks'
    ]_vars

\* acquireToolLocks has just failed for a caller that holds another lock
C2_Witness ==
  /\ lastOp.op = "acquireToolLocks"
  /\ lastOp.ret = FALSE
  /\ \E l \in resourceLocks : l.agentId = lastOp.agent
  /\ \E l \in resourceLocks : l.agentId # lastOp.agent /\ l.resourceId \in DerivedKeys(lastOp)

\* C3: markAgentIdle(a) removes a from the active set and removes exactly the
\* locks owned by a.
C3_IdleReleasesOwnLocksOnly ==
  [][ lastOp'.op = "markAgentIdle" =>
        /\ activeAgents' = activeAgents \ {lastOp'.agent}
        /\ \A l \in resourceLocks' : l.agentId # lastOp'.agent
        /\ \A l \in resourceLocks : l.agentId # lastOp'.agent => l \in resourceLocks'
        /\ resourceLocks' \subseteq resourceLocks
    ]_vars

\* markAgentIdle has just run while another agent is active and holds a lock
C3_Witness ==
  /\ lastOp.op = "markAgentIdle"
  /\ \E l \in resourceLocks : l.agentId # lastOp.agent
  /\ \E b \in activeAgents : b # lastOp.agent

-----------------------------------------------------------------------------
(* TaskManager *)

MaxTasks == 2       \* createTask is called at most MaxTasks times

\* Task ids are the positions 1..Len(tasks) in creation order (the code draws a
\* fresh random id per task); UnknownTaskId is an id that names no task.
\* A task carries the fields the guards read (assignee, status, dependencies);
\* description, timestamps, result, error and ticket fields are payload.
UnknownTaskId == 0
TaskAgents    == {"dev-a", "dev-b"}

\* what the lifecycle hook of a call does: none is registered, or the promise
\* it returns resolves, or it rejects (or the hook throws)
HookOutcomes == {"unregistered", "resolves", "rejects"}
NotReached   == "not reached"

\* try { await hook(ctx) } catch (error) { console.error(...) }:
\* TRUE iff the failure of the hook escapes to the caller of the operation
hookEscapes_NoCatch(h) == h = "rejects"

hookEscapes(h) == FALSE

TaskExists(ts, id) == id \in 1..Len(ts)

SetStatus(ts, id, st) == [ts EXCEPT ![id].status = st]

IndexGet(idx, a) == IF a \in DOMAIN idx THEN idx[a] ELSE {}

IndexPut(idx, a, ids) == [x \in (DOMAIN idx) \cup {a} |-> IF x = a THEN ids ELSE idx[x]]

\* The result of an operation: the maps after it, its return value (ret),
\* whether it threw, and what its hook did (NotReached when the operation
\* returned before the hook's call site).
createTask(ts, idx, params, h) ==
  LET id   == Len(ts) + 1
      task == [assignee     |-> params.assignee,
               assignedBy   |-> params.assignedBy,
               status       |-> "pending",
               dependencies |-> params.dependencies]
  IN [tasks      |-> Append(ts, task),
      agentTasks |-> IndexPut(idx, params.assignee, IndexGet(idx, params.assignee) \cup {id}),
      hook       |-> h,
      threw      |-> hookEscapes(h),
      ret        |-> id]

\* a plausible slip: an unknown dependency id is skipped instead of failing the check
allDepsComplete_SkipUnknown(ts, deps) ==
  \A d \in deps : TaskExists(ts, d) => ts[d].status = "completed"

allDepsComplete(ts, deps) ==
  \A d \in deps : TaskExists(ts, d) /\ ts[d].status = "completed"

startTask(ts, idx, taskId, h) ==
  IF ~TaskExists(ts, taskId)
  THEN [tasks |-> ts, agentTasks |-> idx, hook |-> NotReached, threw |-> FALSE, ret |-> FALSE]
  ELSE IF ts[taskId].dependencies # {} /\ ~allDepsComplete(ts, ts[taskId].dependencies)
  THEN [tasks |-> ts, agentTasks |-> idx, hook |-> NotReached, threw |-> FALSE, ret |-> FALSE]
  ELSE [tasks      |-> SetStatus(ts, taskId, "in_progress"),
        agentTasks |-> idx,
        hook       |-> h,
        threw      |-> hookEscapes(h),
        ret        |-> TRUE]

getActiveTasksForAgent(ts, idx, agentId) ==
  {id \in IndexGet(idx, agentId) :
     TaskExists(ts, id) /\ ts[id].status # "completed" /\ ts[id].status # "failed"}

hasActiveTask(ts, idx, agentId) == getActiveTasksForAgent(ts, idx, agentId) # {}

\* the ids of a Set<string> in iteration (insertion) order: ids are added in
\* creation order only, so that is increasing order
RECURSIVE InOrder(_)
InOrder(ids) ==
  IF ids = {} THEN <<>>
  ELSE LET m == CHOOSE x \in ids : \A y \in ids : x <= y
       IN <<m>> \o InOrder(ids \ {m})

\* for (const taskId of [...taskIds]) { ... }
RECURSIVE completeEach(_, _, _, _, _, _, _)
completeEach(ts, idx, agentId, order, i, h, reached) ==
  IF i > Len(order)
  THEN [tasks |-> ts, agentTasks |-> idx, hook |-> reached, threw |-> FALSE]
  ELSE LET id == order[i]
       IN IF ~TaskExists(ts, id) \/ ts[id].status = "completed"
          THEN completeEach(ts, IndexPut(idx, agentId, idx[agentId] \ {id}),
                            agentId, order, i + 1, h, reached)
          ELSE LET ts2 == SetStatus(ts, id, "completed")
               IN IF hookEscapes(h)
                  THEN [tasks |-> ts2, agentTasks |-> idx, hook |-> h, threw |-> TRUE]
                  ELSE completeEach(ts2, IndexPut(idx, agentId, idx[agentId] \ {id}),
                                    agentId, order, i + 1, h, h)

completeTasksForAgent(ts, idx, agentId, h) ==
  IF agentId \notin DOMAIN idx \/ idx[agentId] = {}
  THEN [tasks |-> ts, agentTasks |-> idx, hook |-> NotReached, threw |-> FALSE]
  ELSE completeEach(ts, idx, agentId, InOrder(idx[agentId]), 1, h, NotReached)

\* a plausible slip: the in_progress check dropped, any existing task completes
completeTask_AnyStatus(ts, idx, taskId, h) ==
  IF ~TaskExists(ts, taskId)
  THEN [tasks |-> ts, agentTasks |-> idx, hook |-> NotReached, threw |-> FALSE, ret |-> FALSE]
  ELSE [tasks      |-> SetStatus(ts, taskId, "completed"),
        agentTasks |-> idx,
        hook       |-> h,
        threw      |-> hookEscapes(h),
        ret        |-> TRUE]

completeTask(ts, idx, taskId, h) ==
  IF ~TaskExists(ts, taskId) \/ ts[taskId].status # "in_progress"
  THEN [tasks |-> ts, agentTasks |-> idx, hook |-> NotReached, threw |-> FALSE, ret |-> FALSE]
  ELSE [tasks      |-> SetStatus(ts, taskId, "completed"),
        agentTasks |-> idx,
        hook       |-> h,
        threw      |-> hookEscapes(h),
        ret        |-> TRUE]

failTask(ts, idx, taskId, h) ==
  IF ~TaskExists(ts, taskId)
  THEN [tasks |-> ts, agentTasks |-> idx, hook |-> NotReached, threw |-> FALSE, ret |-> FALSE]
  ELSE [tasks      |-> SetStatus(ts, taskId, "failed"),
        agentTasks |-> idx,
        hook       |-> h,
        threw      |-> hookEscapes(h),
        ret        |-> TRUE]

\* dependency lists a caller can pass: ids of tasks created so far, or an unknown id
DependencyLists(ts) == SUBSET ((1..Len(ts)) \cup {UnknownTaskId})

\* task ids the callers pass: the ids createTask returned
TaskIdArgs(ts) == 1..Len(ts)

\* who the callers name as assignedBy
Assigner == "lead"

\* An operation that returns before its hook's call site is one call whatever
\* the hook would have done: it is taken once, with h = "unregistered".
CreateTask(assignee, deps, h) ==
  LET r == createTask(tasks, agentTasks,
                      [assignee |-> assignee, assignedBy |-> Assigner, dependencies |-> deps],
                      h)
  IN /\ tasks' = r.tasks
     /\ agentTasks' = r.agentTasks
     /\ lastOp' = [op |-> "createTask", hookFailed |-> r.hook = "rejects", threw |-> r.threw, ret |-> r.ret]

StartTask(id, h) ==
  LET r == startTask(tasks, agentTasks, id, h)
  IN /\ (r.hook = NotReached => h = "unregistered")
     /\ tasks' = r.tasks
     /\ agentTasks' = r.agentTasks
     /\ lastOp' = [op |-> "startTask", id |-> id, hookFailed |-> r.hook = "rejects", threw |-> r.threw,
                   ret |-> r.ret]

CompleteTasksForAgent(a, h) ==
  LET r == completeTasksForAgent(tasks, agentTasks, a, h)
  IN /\ (r.hook = NotReached => h = "unregistered")
     /\ tasks' = r.tasks
     /\ agentTasks' = r.agentTasks
     /\ lastOp' = [op |-> "completeTasksForAgent", agent |-> a, hookFailed |-> r.hook = "rejects",
                   threw |-> r.threw]

CompleteTask(id, h) ==
  LET r == completeTask(tasks, agentTasks, id, h)
  IN /\ (r.hook = NotReached => h = "unregistered")
     /\ tasks' = r.tasks
     /\ agentTasks' = r.agentTasks
     /\ lastOp' = [op |-> "completeTask", id |-> id, hookFailed |-> r.hook = "rejects", threw |-> r.threw,
                   ret |-> r.ret]

FailTask(id, h) ==
  LET r == failTask(tasks, agentTasks, id, h)
  IN /\ (r.hook = NotReached => h = "unregistered")
     /\ tasks' = r.tasks
     /\ agentTasks' = r.agentTasks
     /\ lastOp' = [op |-> "failTask", id |-> id, hookFailed |-> r.hook = "rejects", threw |-> r.threw,
                   ret |-> r.ret]

InitTM ==
  /\ activeAgents = {}
  /\ resourceLocks = {}
  /\ maxParallelAgents = DefaultMaxParallelAgents
  /\ tasks = <<>>
  /\ agentTasks = <<>>
  /\ teamIndex = <<>>
  /\ teamLeadId = NoAgent
  /\ queue = <<>>
  /\ now = 0
  /\ lastOp = [op |-> "new"]
  /\ scen = [pc |-> "off"]
  /\ NoOrchestrator
  /\ NoSession
  /\ NoToolService

TMFrame == UNCHANGED <<peVars, schedVars, now, scen, orchVars, topics, toolVars>>

NextTM ==
  \/ \E a \in TaskAgents, deps \in DependencyLists(tasks), h \in HookOutcomes :
       Len(tasks) < MaxTasks /\ CreateTask(a, deps, h) /\ TMFrame
  \/ \E id \in TaskIdArgs(tasks), h \in HookOutcomes : StartTask(id, h) /\ TMFrame
  \/ \E a \in TaskAgents, h \in HookOutcomes : CompleteTasksForAgent(a, h) /\ TMFrame
  \/ \E id \in TaskIdArgs(tasks), h \in HookOutcomes : CompleteTask(id, h) /\ TMFrame
  \/ \E id \in TaskIdArgs(tasks), h \in HookOutcomes : FailTask(id, h) /\ TMFrame

SpecTM == InitTM /\ [][NextTM]_vars

-----------------------------------------------------------------------------
(* Scheduler *)

MaxRoster   == 3    \* members of a team configuration
MaxPending  == 1    \* turns pending when a review is scheduled (SpecReview)
MaxQueue    == 3    \* turns pending in the queue (SpecSched)
MaxClock    == 1    \* Date.now() ranges over 0..MaxClock
MaxMentions == 2    \* ids in one scheduleMentions call

NoLevel   == "<no level>"
Levels    == {"junior", "mid", "senior", "principal"}
levelRank == [l \in Levels |->
                CASE l = "junior" -> 1 [] l = "mid" -> 2 [] l = "senior" -> 3
                  [] l = "principal" -> 4]

\* /team lead/i.test(role), over the role strings of the model
RoleStrings == {"Team Lead", "Senior Dev"}
matchesTeamLead(role) ==
  role \in {"Team Lead", "team lead", "TEAM LEAD", "assistant team leader"}

\* an id that is in no roster
StrangerId == "stranger"
TopicId    == "general"

\* Map<string, TeamMemberConfig> as the sequence of its values in insertion
\* order; Map.set on a present key replaces the value in place
IndexOf(idx, id)  == CHOOSE i \in 1..Len(idx) : idx[i].id = id
IndexHas(idx, id) == \E i \in 1..Len(idx) : idx[i].id = id
IndexSet(idx, m)  ==
  IF IndexHas(idx, m.id) THEN [idx EXCEPT ![IndexOf(idx, m.id)] = m] ELSE Append(idx, m)

\* the constructor's forEach over teamConfig.members: [teamIndex, teamLeadId]
RECURSIVE constructEach(_, _, _, _)
constructEach(members, i, idx, lead) ==
  IF i > Len(members) THEN [teamIndex |-> idx, teamLeadId |-> lead]
  ELSE constructEach(members, i + 1, IndexSet(idx, members[i]),
                     IF lead = NoAgent /\ matchesTeamLead(members[i].role)
                     THEN members[i].id ELSE lead)

\* a plausible slip: the role is not consulted, the first entry leads
construct_FirstEntry(members) ==
  [teamIndex  |-> constructEach(members, 1, <<>>, NoAgent).teamIndex,
   teamLeadId |-> IF Len(members) > 0 THEN members[1].id ELSE NoAgent]

construct(members) ==
  LET r == constructEach(members, 1, <<>>, NoAgent)
  IN IF r.teamLeadId = NoAgent /\ Len(members) > 0
     THEN [r EXCEPT !.teamLeadId = members[1].id]
     ELSE r

\* a plausible slip: the comparator's operands swapped (descending order)
compare_Descending(a, b) == b.timestamp - a.timestamp

\* (a, b) => a.timestamp - b.timestamp
compare(a, b) == a.timestamp - b.timestamp

\* Array.prototype.sort with a comparator: a stable sort (insertion sort here)
\* a plausible slip: a sort that is not stable, the new element put before
\* the elements that compare equal to it
RECURSIVE insertSorted_BeforeEqual(_, _)
insertSorted_BeforeEqual(sorted, x) ==
  IF sorted = <<>> THEN <<x>>
  ELSE IF compare(sorted[Len(sorted)], x) < 0 THEN Append(sorted, x)
  ELSE Append(insertSorted_BeforeEqual(SubSeq(sorted, 1, Len(sorted) - 1), x),
              sorted[Len(sorted)])

RECURSIVE insertSorted(_, _)
insertSorted(sorted, x) ==
  IF sorted = <<>> THEN <<x>>
  ELSE IF compare(sorted[Len(sorted)], x) <= 0 THEN Append(sorted, x)
  ELSE Append(insertSorted(SubSeq(sorted, 1, Len(sorted) - 1), x), sorted[Len(sorted)])

RECURSIVE sortEach(_, _, _)
sortEach(q, i, acc) ==
  IF i > Len(q) THEN acc ELSE sortEach(q, i + 1, insertSorted(acc, q[i]))

sort(q) == sortEach(q, 1, <<>>)

enqueue(q, task) == sort(Append(q, task))

hasPendingTasks(q) == Len(q) > 0

Turn(agentId, reason, meta, timestamp) ==
  [type |-> "agent_turn", agentId |-> agentId, topicId |-> TopicId, reason |-> reason,
   metadata |-> meta, timestamp |-> timestamp]

scheduleInitialTurn(q, lead, t) ==
  IF lead = NoAgent THEN q
  ELSE enqueue(q, Turn(lead, "init", NoAgent, t))

\* mentions.forEach((mentionedId, index) => ...); clock[index] is what
\* Date.now() returns in the call of that index
RECURSIVE mentionEach(_, _, _, _, _)
mentionEach(q, idx, mentions, i, clock) ==
  IF i > Len(mentions) THEN q
  ELSE mentionEach(IF IndexHas(idx, mentions[i])
                   THEN enqueue(q, Turn(mentions[i], "mention", NoAgent, clock[i] + (i - 1)))
                   ELSE q,
                   idx, mentions, i + 1, clock)

scheduleMentions(q, idx, mentions, clock) == mentionEach(q, idx, mentions, 1, clock)

\* this.teamIndex.forEach((member) => ...): the candidate after members 1..i
RECURSIVE reviewerEach(_, _, _, _, _)
reviewerEach(idx, i, neededRank, excludeId, candidate) ==
  IF i > Len(idx) THEN candidate
  ELSE LET member == idx[i]
       IN IF member.level = NoLevel \/ member.id = excludeId
          THEN reviewerEach(idx, i + 1, neededRank, excludeId, candidate)
          ELSE IF levelRank[member.level] > neededRank
                  /\ (candidate = <<>>
                      \/ levelRank[member.level] < levelRank[candidate[1].level])
          THEN reviewerEach(idx, i + 1, neededRank, excludeId, <<member>>)
          ELSE reviewerEach(idx, i + 1, neededRank, excludeId, candidate)

\* a plausible slip: the second comparison turned round, the highest superior wins
findReviewer_Highest(idx, authorLevel, excludeId) ==
  LET ok == {i \in 1..Len(idx) :
               /\ idx[i].level # NoLevel
               /\ idx[i].id # excludeId
               /\ levelRank[idx[i].level] > levelRank[authorLevel]}
  IN IF ok = {} THEN <<>>
     ELSE LET best == CHOOSE i \in ok :
                        \A j \in ok :
                          \/ levelRank[idx[j].level] < levelRank[idx[i].level]
                          \/ (levelRank[idx[j].level] = levelRank[idx[i].level] /\ i <= j)
          IN <<idx[best]>>

\* the reviewer as a sequence: <<member>>, or <<>> for undefined
findReviewer(idx, authorLevel, excludeId) ==
  reviewerEach(idx, 1, levelRank[authorLevel], excludeId, <<>>)

scheduleReviewIfNeeded(q, idx, lead, authorId, t) ==
  IF ~IndexHas(idx, authorId) THEN q
  ELSE LET author == idx[IndexOf(idx, authorId)]
       IN IF author.level = NoLevel THEN q
          ELSE LET reviewer == findReviewer(idx, author.level, authorId)
               IN IF reviewer # <<>>
                  THEN enqueue(q, Turn(reviewer[1].id, "review", authorId, t))
                  ELSE IF lead # NoAgent /\ lead # authorId
                  THEN enqueue(q, Turn(lead, "review", authorId, t))
                  ELSE q

routeBackToLead(q, lead, currentAgentId, t) ==
  IF lead = NoAgent \/ lead = currentAgentId THEN q
  ELSE enqueue(q, Turn(lead, "followup", currentAgentId, t))

MemberId == <<"m1", "m2", "m3", "m4", "m5">>

\* team configurations: member i has the id MemberId[i], any level or none,
\* and at most one member carries the team-lead role
Members(n) ==
  {m \in [1..n -> [id : {MemberId[i] : i \in 1..n}, level : Levels \cup {NoLevel},
                   role : RoleStrings]] :
     /\ \A i \in 1..n : m[i].id = MemberId[i]
     /\ Cardinality({i \in 1..n : matchesTeamLead(m[i].role)}) <= 1}

MemberLists == UNION {Members(n) : n \in 0..MaxRoster}

\* the 'Tiny Team' of Scheduler.test.ts
TinyTeam ==
  <<[id |-> "lead", level |-> "principal", role |-> "Team Lead"],
    [id |-> "solo", level |-> "principal", role |-> "Solo"]>>

RosterIds(idx) == {idx[i].id : i \in 1..Len(idx)}

\* ids a caller can name: the roster's, or one that is in no roster
IdArgs(idx) == RosterIds(idx) \cup {StrangerId}

\* the lists of at most MaxMentions ids, and of at most room ids
MentionLists(idx, room) ==
  UNION {[1..n -> IdArgs(idx)] : n \in {k \in 0..MaxMentions : k <= room}}

\* the readings of Date.now() during one call of n reads: the clock does not
\* run backwards and stays within the model's range
ClockReadings(n) ==
  {c \in [1..n -> now..MaxClock] : \A i \in 1..n : i > 1 => c[i - 1] <= c[i]}

ScheduleInitialTurn ==
  /\ queue' = scheduleInitialTurn(queue, teamLeadId, now)
  /\ lastOp' = [op |-> "scheduleInitialTurn"]
  /\ UNCHANGED <<teamIndex, teamLeadId, now>>

ScheduleMentions(mentions, clock) ==
  /\ queue' = scheduleMentions(queue, teamIndex, mentions, clock)
  /\ now' = IF Len(mentions) = 0 THEN now ELSE clock[Len(mentions)]
  /\ lastOp' = [op |-> "scheduleMentions", mentions |-> mentions]
  /\ UNCHANGED <<teamIndex, teamLeadId>>

ScheduleReviewIfNeeded(authorId) ==
  /\ queue' = scheduleReviewIfNeeded(queue, teamIndex, teamLeadId, authorId, now)
  /\ lastOp' = [op |-> "scheduleReviewIfNeeded", authorId |-> authorId]
  /\ UNCHANGED <<teamIndex, teamLeadId, now>>

RouteBackToLead(currentAgentId) ==
  /\ queue' = routeBackToLead(queue, teamLeadId, currentAgentId, now)
  /\ lastOp' = [op |-> "routeBackToLead", currentAgentId |-> currentAgentId]
  /\ UNCHANGED <<teamIndex, teamLeadId, now>>

\* dequeue(): this.queue.shift(); ret is <<turn>>, or <<>> for undefined
Dequeue ==
  /\ queue' = IF queue = <<>> THEN queue ELSE Tail(queue)
  /\ lastOp' = [op |-> "dequeue", ret |-> IF queue = <<>> THEN <<>> ELSE <<Head(queue)>>]
  /\ UNCHANGED <<teamIndex, teamLeadId, now>>

Tick ==
  /\ now < MaxClock
  /\ now' = now + 1
  /\ lastOp' = [op |-> "tick"]
  /\ UNCHANGED <<teamIndex, teamLeadId, queue>>

SchedFrame == UNCHANGED <<peVars, tmVars, scen, orchVars, topics, toolVars>>

\* a Scheduler constructed from any team configuration; reviews are scheduled
\* while at most MaxPending turns are pending
InitReview ==
  /\ activeAgents = {}
  /\ resourceLocks = {}
  /\ maxParallelAgents = DefaultMaxParallelAgents
  /\ tasks = <<>>
  /\ agentTasks = <<>>
  /\ \E members \in MemberLists :
       /\ teamIndex = construct(members).teamIndex
       /\ teamLeadId = construct(members).teamLeadId
  /\ queue = <<>>
  /\ now = 0
  /\ lastOp = [op |-> "new"]
  /\ scen = [pc |-> "off"]
  /\ NoOrchestrator
  /\ NoSession
  /\ NoToolService

NextReview ==
  \/ \E a \in IdArgs(teamIndex) :
       Len(queue) <= MaxPending /\ ScheduleReviewIfNeeded(a) /\ SchedFrame
  \/ Dequeue /\ SchedFrame

SpecReview == InitReview /\ [][NextReview]_vars

\* the Scheduler of the Tiny Team under every operation
InitSched ==
  /\ activeAgents = {}
  /\ resourceLocks = {}
  /\ maxParallelAgents = DefaultMaxParallelAgents
  /\ tasks = <<>>
  /\ agentTasks = <<>>
  /\ teamIndex = construct(TinyTeam).teamIndex
  /\ teamLeadId = construct(TinyTeam).teamLeadId
  /\ queue = <<>>
  /\ now = 0
  /\ lastOp = [op |-> "new"]
  /\ scen = [pc |-> "off"]
  /\ NoOrchestrator
  /\ NoSession
  /\ NoToolService

NextSched ==
  \/ Len(queue) < MaxQueue /\ ScheduleInitialTurn /\ SchedFrame
  \/ \E mentions \in MentionLists(teamIndex, MaxQueue - Len(queue)) :
       \E clock \in ClockReadings(Len(mentions)) :
         ScheduleMentions(mentions, clock) /\ SchedFrame
  \/ \E a \in IdArgs(teamIndex) :
       Len(queue) < MaxQueue /\ ScheduleReviewIfNeeded(a) /\ SchedFrame
  \/ \E a \in IdArgs(teamIndex) :
       Len(queue) < MaxQueue /\ RouteBackToLead(a) /\ SchedFrame
  \/ Dequeue /\ SchedFrame
  \/ Tick /\ SchedFrame

SpecSched == InitSched /\ [][NextSched]_vars

\* Orchestrator.findTeamLead: members.find(...) || members[0], as <<member>>
\* or <<>> for undefined
RECURSIVE find(_, _)
find(members, i) ==
  IF i > Len(members) THEN <<>>
  ELSE IF matchesTeamLead(members[i].role) THEN <<members[i]>>
  ELSE find(members, i + 1)

findTeamLead(members) ==
  IF find(members, 1) # <<>> THEN find(members, 1)
  ELSE IF Len(members) > 0 THEN <<members[1]>>
  ELSE <<>>

\* role strings with and without 'team lead' in them, in either case
LeadRoleStrings == {"Team Lead", "assistant team leader", "Lead Developer", "Senior Dev"}

\* team configurations in which any number of members carry any of the roles
LeadMembers(n) ==
  {m \in [1..n -> [id : {MemberId[i] : i \in 1..n}, level : {NoLevel},
                   role : LeadRoleStrings]] :
     \A i \in 1..n : m[i].id = MemberId[i]}

LeadMemberLists == UNION {LeadMembers(n) : n \in 0..MaxRoster}

FindTeamLead ==
  /\ lastOp' = [op |-> "findTeamLead", ret |-> findTeamLead(teamConfig)]
  /\ UNCHANGED <<teamIndex, teamLeadId, queue, now>>

\* an Orchestrator and the Scheduler it constructs from its team configuration
InitLead ==
  /\ activeAgents = {}
  /\ resourceLocks = {}
  /\ maxParallelAgents = DefaultMaxParallelAgents
  /\ tasks = <<>>
  /\ agentTasks = <<>>
  /\ \E members \in LeadMemberLists :
       /\ OrchestratorNew(members)
       /\ teamIndex = construct(members).teamIndex
       /\ teamLeadId = construct(members).teamLeadId
  /\ queue = <<>>
  /\ now = 0
  /\ lastOp = [op |-> "new"]
  /\ scen = [pc |-> "off"]
  /\ NoSession
  /\ NoToolService

NextLead ==
  \/ FindTeamLead /\ SchedFrame
  \/ Len(queue) <= MaxPending /\ ScheduleInitialTurn /\ SchedFrame
  \/ Dequeue /\ SchedFrame

SpecLead == InitLead /\ [][NextLead]_vars

\* the turns a caller of enqueue() can pass: the Orchestrator enqueues 'human'
\* and 'followup' turns itself, with timestamps at or after the clock
EnqueueReasons == {"human", "followup"}
EnqueueArgs(idx) ==
  {Turn(a, r, NoAgent, t) : a \in RosterIds(idx), r \in EnqueueReasons, t \in now..MaxClock}

Enqueue(task) ==
  /\ queue' = enqueue(queue, task)
  /\ lastOp' = [op |-> "enqueue", task |-> task]
  /\ UNCHANGED <<teamIndex, teamLeadId, now>>

\* the queue of the Tiny Team's Scheduler under enqueue and dequeue
NextQueue ==
  \/ \E task \in EnqueueArgs(teamIndex) :
       Len(queue) < MaxQueue /\ Enqueue(task) /\ SchedFrame
  \/ Dequeue /\ SchedFrame
  \/ Tick /\ SchedFrame

SpecQueue == InitSched /\ [][NextQueue]_vars

-----------------------------------------------------------------------------
(* The dependency-gating scenario, run after any history of the TaskManager  *)
(* that created at most MaxPrelude tasks: create T1, create T2 = [T1],       *)
(* startTask(T2), optionally startTask(T1), completeTask(T1), startTask(T2). *)

MaxPrelude == 1     \* tasks that exist before the scenario begins

\* any operation of the TaskManager before the scenario begins
ScenPrelude ==
  /\ scen.pc = "free"
  /\ \/ \E a \in TaskAgents, deps \in DependencyLists(tasks), h \in HookOutcomes :
          Len(tasks) < MaxPrelude /\ CreateTask(a, deps, h)
     \/ \E id \in TaskIdArgs(tasks), h \in HookOutcomes : StartTask(id, h)
     \/ \E a \in TaskAgents, h \in HookOutcomes : CompleteTasksForAgent(a, h)
     \/ \E id \in TaskIdArgs(tasks), h \in HookOutcomes : CompleteTask(id, h)
     \/ \E id \in TaskIdArgs(tasks), h \in HookOutcomes : FailTask(id, h)
  /\ UNCHANGED scen

ScenCreateT1(a, h) ==
  /\ scen.pc = "free"
  /\ CreateTask(a, {}, h)
  /\ scen' = [scen EXCEPT !.pc = "t1", !.t1 = Len(tasks) + 1]

ScenCreateT2(a, h) ==
  /\ scen.pc = "t1"
  /\ CreateTask(a, {scen.t1}, h)
  /\ scen' = [scen EXCEPT !.pc = "t2", !.t2 = Len(tasks) + 1]

ScenStartT2First(h) ==
  /\ scen.pc = "t2"
  /\ StartTask(scen.t2, h)
  /\ scen' = [scen EXCEPT !.pc = "started2", !.rets = Append(@, lastOp'.ret)]

ScenStartT1(h) ==
  /\ scen.pc = "started2"
  /\ ~scen.startedT1
  /\ StartTask(scen.t1, h)
  /\ scen' = [scen EXCEPT !.startedT1 = TRUE, !.retStartT1 = lastOp'.ret]

ScenCompleteT1(h) ==
  /\ scen.pc = "started2"
  /\ CompleteTask(scen.t1, h)
  /\ scen' = [scen EXCEPT !.pc = "completed1", !.rets = Append(@, lastOp'.ret)]

ScenStartT2Second(h) ==
  /\ scen.pc = "completed1"
  /\ StartTask(scen.t2, h)
  /\ scen' = [scen EXCEPT !.pc = "done", !.rets = Append(@, lastOp'.ret)]

InitScenario ==
  /\ activeAgents = {}
  /\ resourceLocks = {}
  /\ maxParallelAgents = DefaultMaxParallelAgents
  /\ tasks = <<>>
  /\ agentTasks = <<>>
  /\ teamIndex = <<>>
  /\ teamLeadId = NoAgent
  /\ queue = <<>>
  /\ now = 0
  /\ lastOp = [op |-> "new"]
  /\ scen = [pc |-> "free", t1 |-> UnknownTaskId, t2 |-> UnknownTaskId, rets |-> <<>>,
             startedT1 |-> FALSE, retStartT1 |-> FALSE]
  /\ NoOrchestrator
  /\ NoSession
  /\ NoToolService

ScenFrame == UNCHANGED <<peVars, schedVars, now, orchVars, topics, toolVars>>

NextScenario ==
  \/ ScenPrelude /\ ScenFrame
  \/ \E a \in TaskAgents, h \in HookOutcomes : ScenCreateT1(a, h) /\ ScenFrame
  \/ \E a \in TaskAgents, h \in HookOutcomes : ScenCreateT2(a, h) /\ ScenFrame
  \/ \E h \in HookOutcomes : ScenStartT2First(h) /\ ScenFrame
  \/ \E h \in HookOutcomes : ScenStartT1(h) /\ ScenFrame
  \/ \E h \in HookOutcomes : ScenCompleteT1(h) /\ ScenFrame
  \/ \E h \in HookOutcomes : ScenStartT2Second(h) /\ ScenFrame

SpecScenario == InitScenario /\ [][NextScenario]_vars

-----------------------------------------------------------------------------
(* Orchestrator: what agents say and how it is read *)

MaxAgentCalls == 3   \* agent.execute() calls in a session
MaxHumanInputs == 1  \* handleHumanInput() calls in a session

\* the team: a lead and a second member who is a developer, a QA engineer or
\* an assistant of the lead
SecondRoles == {"Developer", "QA Engineer", "assistant team leader"}
OrchTeam(role) ==
  <<[id |-> "lead", level |-> "principal", role |-> "Team Lead"],
    [id |-> "dev", level |-> "junior", role |-> role]>>

\* roleLower.includes('team lead') || roleLower.includes('lead')
isTeamLead(role) ==
  role \in {"Team Lead", "team lead", "TEAM LEAD", "assistant team leader", "Lead Developer"}

\* roleLower.includes('qa')
includesQa(role) == role \in {"QA Engineer"}

\* message contents of a live agent
SaysDone      == "done"
SaysDonePfx   == "System: done"
SaysMention   == "@dev implement it"
SaysError     == "Error: model unavailable"
SaysWrite     == "CALL_TOOL: file_system.write({\"path\":\"a.ts\"})"
SaysTerminal  == "CALL_TOOL: terminal.run({\"command\":\"ls\"})"
SaysWriteArg  == "CALL_TOOL: file_system({\"action\":\"WRITE\",\"path\":\"a.ts\"})"
SaysBadArgs   == "CALL_TOOL: file_system.write({bad)"
SaysBlank     == "   "
LiveContents  ==
  {SaysDone, SaysDonePfx, SaysMention, SaysError, SaysWrite, SaysWriteArg, SaysTerminal,
   SaysBadArgs, SaysBlank}

\* message contents of the SimulatedAdapter, which echoes the last message
EchoDone      == "SIMULATED RESPONSE: Received: done. Will coordinate next steps."
EchoMention   == "SIMULATED RESPONSE: Received: @dev implement it. Will coordinate next steps."
SimulatedContents == {EchoDone, EchoMention}

\* what agent.execute() can resolve to, by the kind of the agent
ContentsOf(kind) == IF kind = "simulated" THEN SimulatedContents ELSE LiveContents

\* sanitizeAgentContent: a leading 'System:' label is stripped, the result trimmed
sanitizeAgentContent(content) ==
  CASE content = SaysDonePfx -> SaysDone
    [] content = SaysBlank   -> ""
    [] OTHER                 -> content

\* the ids matched by /@([a-zA-Z0-9_-]+)/g
mentionPattern(content) ==
  IF content \in {SaysMention, EchoMention} THEN <<"dev">> ELSE <<>>

\* sanitized.toLowerCase().startsWith('error:')
startsWithError(sanitized) == sanitized \in {SaysError}

\* contentString.match(toolCallPattern) and JSON.parse of its third group;
\* action is (args.action || derivedAction || '').toLowerCase()
NoMatch == [match |-> FALSE]
toolCallPattern(content) ==
  CASE content = SaysWrite ->
         [match |-> TRUE, toolName |-> "file_system", derivedAction |-> "write",
          parses |-> TRUE, args |-> [path |-> "a.ts"], action |-> "write"]
    [] content = SaysWriteArg ->
         [match |-> TRUE, toolName |-> "file_system", derivedAction |-> Undefined,
          parses |-> TRUE, args |-> [path |-> "a.ts"], action |-> "write"]
    [] content = SaysTerminal ->
         [match |-> TRUE, toolName |-> "terminal", derivedAction |-> "run",
          parses |-> TRUE, args |-> [path |-> Undefined], action |-> "run"]
    [] content = SaysBadArgs ->
         [match |-> TRUE, toolName |-> "file_system", derivedAction |-> "write",
          parses |-> FALSE, args |-> [path |-> Undefined], action |-> ""]
    [] OTHER -> NoMatch

\* AgentManager.agents as a set of [id, kind]; createTeam with every API key
\* present registers a live adapter for each member
RegistryHas(reg, id) == \E a \in reg : a.id = id
RegistryGet(reg, id) == CHOOSE a \in reg : a.id = id
createTeam(members) ==
  {[id |-> members[i].id, role |-> members[i].role, kind |-> "live"] : i \in 1..Len(members)}

\* a plausible slip: the registry is left as it is, the live agent stays
replaceWithSimulated_KeepLive(reg, agentId) == reg

replaceWithSimulated(reg, agentId) ==
  {IF a.id = agentId THEN [a EXCEPT !.kind = "simulated"] ELSE a : a \in reg}

\* Map<string, string> as a set of [id, text]
LastHas(m, id)       == \E e \in m : e.id = id
LastGet(m, id)       == (CHOOSE e \in m : e.id = id).text
LastDelete(m, id)    == {e \in m : e.id # id}
LastSet(m, id, text) == LastDelete(m, id) \cup {[id |-> id, text |-> text]}

-----------------------------------------------------------------------------
(* Orchestrator: the handlers, as functions of the state they read and write *)

RetryDelay    == 500    \* Date.now() + 500
ConflictDelay == 1000   \* Date.now() + 1000
FollowupDelay == 2      \* Date.now() + 2

\* the state of the Orchestrator and of its collaborators as one record;
\* appended, enqueued and dispatched list what the current step has added to
\* the log, passed to the scheduler and handed to the tool service
Cur ==
  [queue |-> queue, tasks |-> tasks, agentTasks |-> agentTasks,
   active |-> activeAgents, locks |-> resourceLocks, agents |-> agents,
   processing |-> processing, awaiting |-> awaitingHumanInput,
   last |-> lastAgentMessages, fallback |-> simulatedFallback, log |-> eventLog,
   loops |-> loops, spoken |-> spoken, calls |-> calls,
   appended |-> <<>>, enqueued |-> <<>>, dispatched |-> FALSE, threw |-> FALSE]

\* a runLoop() call in progress: where it is suspended and on what
NoTurn    == [type |-> "none"]
HeadFrame == [pc |-> "head", task |-> NoTurn, call |-> NoMatch, mentions |-> <<>>, i |-> 0]

\* sessionManager.appendEvent
appendEvent(o, event) ==
  [o EXCEPT !.log = Append(@, event), !.appended = Append(@, event)]

\* recordMessageEvent of a message written by the Orchestrator itself
systemMessage(o, topicId, body) ==
  appendEvent(o, [kind |-> "message", authorId |-> "system", topicId |-> topicId,
                  body |-> body])

\* recordMessageEvent of an agent's message
agentMessage(o, agentId, topicId, body) ==
  appendEvent(o, [kind |-> "message", authorId |-> agentId, topicId |-> topicId,
                  body |-> body])

\* this.scheduler.enqueue(turn)
schedulerEnqueue(o, turn) ==
  [o EXCEPT !.queue = enqueue(@, turn), !.enqueued = Append(@, turn)]

followup(o, agentId, delay) ==
  schedulerEnqueue(o, Turn(agentId, "followup", NoAgent, now + delay))

\* the three scheduling calls; what they add is what they put in an empty queue
schedulerMentions(o, mentions) ==
  [o EXCEPT !.queue = scheduleMentions(@, teamIndex, mentions, [i \in 1..Len(mentions) |-> now]),
            !.enqueued = @ \o scheduleMentions(<<>>, teamIndex, mentions,
                                               [i \in 1..Len(mentions) |-> now])]

schedulerReview(o, authorId) ==
  [o EXCEPT !.queue = scheduleReviewIfNeeded(@, teamIndex, teamLeadId, authorId, now),
            !.enqueued = @ \o scheduleReviewIfNeeded(<<>>, teamIndex, teamLeadId, authorId, now)]

schedulerRouteBack(o, currentAgentId) ==
  [o EXCEPT !.queue = routeBackToLead(@, teamLeadId, currentAgentId, now),
            !.enqueued = @ \o routeBackToLead(<<>>, teamLeadId, currentAgentId, now)]

\* a plausible slip: the re-entrancy test dropped
runLoopReturnsEarly_Never(flag) == FALSE

\* if (this.processing) return
runLoopReturnsEarly(flag) == flag

\* a plausible slip: every call of runLoop() starts to drain
runLoop_Reentrant(o) == [o EXCEPT !.processing = TRUE, !.loops = Append(@, HeadFrame)]

\* runLoop() up to its while: a call that does not return early sets the flag
\* and begins to drain
runLoop(o) ==
  IF runLoopReturnsEarly(o.processing) THEN o
  ELSE [o EXCEPT !.processing = TRUE, !.loops = Append(@, HeadFrame)]

\* the function handling the turn of loop k returns
returns(o, k) == [o EXCEPT !.loops[k].pc = "returned"]

\* the function handling the turn of loop k is suspended at an await
suspends(o, k, pc) == [o EXCEPT !.loops[k].pc = pc]

\* a plausible slip: the notice is written but the flag is left as it is
handleRepeatedMessage_NoFlag(o, content, topicId) ==
  systemMessage(o, topicId, "repeated the same response: " \o content)

handleRepeatedMessage(o, content, topicId) ==
  [systemMessage(o, topicId, "repeated the same response: " \o content)
     EXCEPT !.awaiting = TRUE]

\* the two notices of handleAgentError, which name the agent
ErrorNotice(agentId)    == "Agent " \o agentId \o " encountered an error"
FallbackNotice(agentId) == "Agent " \o agentId \o " has been switched to a simulated mode"

handleAgentError(o, agent, content, topicId) ==
  LET o1 == systemMessage(o, topicId, ErrorNotice(agent.id))
  IN IF agent.id \in o1.fallback \/ ~RegistryHas(o1.agents, agent.id) THEN o1
     ELSE LET o2 == [o1 EXCEPT !.agents = replaceWithSimulated(@, agent.id),
                               !.fallback = @ \cup {agent.id},
                               !.last = LastDelete(@, agent.id),
                               !.awaiting = FALSE]
              o3 == systemMessage(o2, topicId, FallbackNotice(agent.id))
          IN runLoop(followup(o3, agent.id, 0))

\* a plausible slip: the active-task condition left out
writeGuardrail_NoTaskCheck(o, agent, call) ==
  IF ~(call.toolName = "file_system" /\ call.action = "write") THEN "none"
  ELSE IF includesQa(agent.role) THEN "qa"
  ELSE IF isTeamLead(agent.role) THEN "lead"
  ELSE "none"

\* the file-write guardrails of processAgentOutput: which of them stops the
\* call, "none" when it goes through
writeGuardrail(o, agent, call) ==
  IF ~(call.toolName = "file_system" /\ call.action = "write") THEN "none"
  ELSE IF includesQa(agent.role) THEN "qa"
  ELSE IF isTeamLead(agent.role) THEN "lead"
  ELSE IF ~hasActiveTask(o.tasks, o.agentTasks, agent.id) THEN "no task"
  ELSE "none"

\* teamConfig.members.filter(...).map(member => member.id)
pendingAssignees(o, agentId) ==
  LET busy == SelectSeq(teamConfig,
                        LAMBDA m : m.id # agentId /\ hasActiveTask(o.tasks, o.agentTasks, m.id))
  IN [i \in 1..Len(busy) |-> busy[i].id]

\* a plausible slip: the parse error is reported but the agent gets no new turn
parseFailure_NoRetry(o, agent, topicId) ==
  systemMessage(o, topicId, "Error parsing tool arguments")

\* the catch around JSON.parse of the argument payload
parseFailure(o, agent, topicId) ==
  followup(systemMessage(o, topicId, "Error parsing tool arguments"), agent.id, 0)

\* processAgentOutput from the parsed tool call on, up to executeTool
toolCallBranch(o, k, agent, sanitized, call, topicId) ==
  IF ~call.parses
  THEN returns(parseFailure(o, agent, topicId), k)
  ELSE LET stop == writeGuardrail(o, agent, call)
       IN CASE stop = "qa" ->
                 returns(schedulerRouteBack(
                           systemMessage(o, topicId, "limited to verification-only tasks"),
                           agent.id), k)
            [] stop = "lead" ->
                 LET o1 == systemMessage(o, topicId, "focus on delegation and reviews")
                     o2 == IF Len(pendingAssignees(o1, agent.id)) > 0
                           THEN schedulerMentions(o1, pendingAssignees(o1, agent.id))
                           ELSE o1
                 IN returns(followup(o2, agent.id, RetryDelay), k)
            [] stop = "no task" ->
                 returns(schedulerRouteBack(
                           systemMessage(o, topicId, "no active assignment"),
                           agent.id), k)
            [] OTHER ->
                 LET o1 == agentMessage(o, agent.id, topicId, sanitized)
                 IN IF ~canExecuteTool(o1.locks, agent.id, call.toolName, call.args)
                    THEN returns(followup(systemMessage(o1, topicId, "resource is locked"),
                                          agent.id, ConflictDelay), k)
                    ELSE LET got == acquireToolLocks(o1.locks, agent.id, call.toolName,
                                                     call.args)
                         IN IF ~got.ret
                            THEN returns(followup([o1 EXCEPT !.locks = got.locks],
                                                  agent.id, ConflictDelay), k)
                            ELSE suspends([o1 EXCEPT !.locks = got.locks,
                                                     !.dispatched = TRUE,
                                                     !.loops[k].call = call], k, "tool")

\* a plausible slip: the author of a message without mentions gets the next
\* turn, whoever it is
routing_AuthorAgain(o, k, agent, mentions, topicId) ==
  LET o1 == IF Len(mentions) > 0 THEN schedulerMentions(o, mentions)
            ELSE followup(o, agent.id, FollowupDelay)
  IN returns(runLoop(schedulerReview(o1, agent.id)), k)

\* processAgentOutput after the message is recorded: mentions, routing, review
routing(o, k, agent, mentions, topicId) ==
  LET o1 == IF Len(mentions) > 0 THEN schedulerMentions(o, mentions)
            ELSE IF matchesTeamLead(agent.role) THEN o
            ELSE schedulerRouteBack(o, agent.id)
  IN returns(runLoop(schedulerReview(o1, agent.id)), k)

processAgentOutput(o, k, agent, content, task) ==
  LET topicId   == task.topicId
      mentions  == SelectSeq(mentionPattern(content), LAMBDA id : RegistryHas(o.agents, id))
      sanitized == sanitizeAgentContent(content)
  IN IF sanitized = ""
     THEN returns(handleRepeatedMessage(o, "(empty response after sanitization)", topicId), k)
     ELSE IF LastHas(o.last, agent.id) /\ LastGet(o.last, agent.id) = sanitized
     THEN returns(handleRepeatedMessage(o, sanitized, topicId), k)
     ELSE LET o1 == [o EXCEPT !.last = LastSet(@, agent.id, sanitized)]
          IN IF startsWithError(sanitized)
             THEN returns(handleAgentError(o1, agent, sanitized, topicId), k)
             ELSE LET o2   == [o1 EXCEPT !.awaiting = FALSE]
                      call == toolCallPattern(content)
                  IN IF call.match
                     THEN toolCallBranch(o2, k, agent, sanitized, call, topicId)
                     ELSE LET o3 == agentMessage(o2, agent.id, topicId, sanitized)
                          IN IF Len(mentions) > 0 /\ isTeamLead(agent.role)
                             THEN suspends([o3 EXCEPT !.loops[k].mentions = mentions,
                                                      !.loops[k].i = 1], k, "create")
                             ELSE routing(o3, k, agent, mentions, topicId)

\* a plausible slip: the turn ends without marking the agent idle
finally_NoIdle(o, k) ==
  IF o.loops[k].pc # "returned" THEN o
  ELSE [o EXCEPT !.loops[k] = HeadFrame]

\* handleTask's finally, once the function handling the turn has returned:
\* the agent is marked idle and the loop is back at its while
finally(o, k) ==
  IF o.loops[k].pc # "returned" THEN o
  ELSE LET idle == markAgentIdle(o.active, o.locks, o.loops[k].task.agentId)
       IN [o EXCEPT !.active = idle.active, !.locks = idle.locks, !.loops[k] = HeadFrame]

\* an exception leaves the turn of loop k: the finally clauses run and
\* runLoop() rejects without resetting the flag
rejects(o, k) ==
  LET f    == o.loops[k]
      free == IF f.pc \in {"tool", "complete"} /\ f.call.match
              THEN releaseToolLocks(o.locks, f.task.agentId, f.call.toolName, f.call.args)
              ELSE o.locks
      idle == markAgentIdle(o.active, free, f.task.agentId)
  IN [o EXCEPT !.active = idle.active, !.locks = idle.locks, !.threw = TRUE,
               !.loops = SubSeq(@, 1, k - 1) \o SubSeq(@, k + 1, Len(@))]

\* the while of runLoop() and handleTask up to agent.execute()
loopNext(o, k) ==
  IF ~hasPendingTasks(o.queue)
  THEN [o EXCEPT !.processing = FALSE,
                 !.loops = SubSeq(@, 1, k - 1) \o SubSeq(@, k + 1, Len(@))]
  ELSE LET task == Head(o.queue)
           o1   == [o EXCEPT !.queue = Tail(@)]
       IN IF ~RegistryHas(o1.agents, task.agentId) THEN o1
          ELSE IF ~canAgentStart(o1.active, maxParallelAgents, task.agentId)
          THEN schedulerEnqueue(o1, [task EXCEPT !.timestamp = now + RetryDelay])
          ELSE [o1 EXCEPT !.active = @ \cup {task.agentId},
                          !.calls.agent = @ + 1,
                          !.loops[k] = [HeadFrame EXCEPT !.pc = "agent", !.task = task]]

\* a plausible slip: the failed turn is retried like a failed tool call
agentThrows_Retry(o, k) ==
  returns(followup(systemMessage(o, o.loops[k].task.topicId, "Error executing agent"),
                   o.loops[k].task.agentId, FollowupDelay), k)

\* the catch around agent.execute()
agentThrows(o, k) ==
  returns(systemMessage(o, o.loops[k].task.topicId, "Error executing agent"), k)

\* processAgentOutput after executeTool resolves, up to completeTasksForAgent
toolReturns(o, k, success) ==
  LET f     == o.loops[k]
      agent == RegistryGet(o.agents, f.task.agentId)
      o1    == [o EXCEPT !.locks = releaseToolLocks(@, agent.id, f.call.toolName, f.call.args)]
      o2    == appendEvent(o1, [kind |-> "tool", authorId |-> "system",
                                topicId |-> f.task.topicId,
                                body |-> IF success THEN "success" ELSE "failure"])
  IN IF ~success
     THEN LET o3 == followup(systemMessage(o2, f.task.topicId, "the tool execution failed"),
                             agent.id, FollowupDelay)
              o4 == [o3 EXCEPT !.locks = releaseToolLocks(@, agent.id, f.call.toolName,
                                                          f.call.args)]
          IN returns(runLoop(o4), k)
     ELSE suspends(o2, k, "complete")

\* a plausible slip: the follow-up turn is enqueued for the lead as well
completeReturns_LeadFollowup(o, k, h) ==
  LET f     == o.loops[k]
      agent == RegistryGet(o.agents, f.task.agentId)
      r     == completeTasksForAgent(o.tasks, o.agentTasks, agent.id, h)
      o1    == [o EXCEPT !.tasks = r.tasks, !.agentTasks = r.agentTasks]
      o2    == followup(systemMessage(o1, f.task.topicId, "the tool executed successfully"),
                        agent.id, FollowupDelay)
      o3    == [o2 EXCEPT !.locks = releaseToolLocks(@, agent.id, f.call.toolName,
                                                    f.call.args)]
  IN returns(runLoop(o3), k)

\* processAgentOutput after completeTasksForAgent resolves
completeReturns(o, k, h) ==
  LET f     == o.loops[k]
      agent == RegistryGet(o.agents, f.task.agentId)
      r     == completeTasksForAgent(o.tasks, o.agentTasks, agent.id, h)
      o1    == [o EXCEPT !.tasks = r.tasks, !.agentTasks = r.agentTasks]
  IN IF r.threw THEN rejects(o1, k)
     ELSE LET o2 == IF ~isTeamLead(agent.role)
                    THEN followup(systemMessage(o1, f.task.topicId,
                                                "the tool executed successfully"),
                                  agent.id, FollowupDelay)
                    ELSE o1
              o3 == [o2 EXCEPT !.locks = releaseToolLocks(@, agent.id, f.call.toolName,
                                                          f.call.args)]
          IN returns(runLoop(o3), k)

\* a plausible slip: the mentioned member is named as the one who assigned
createReturns_AssignedBySelf(o, k, h) ==
  LET f     == o.loops[k]
      agent == RegistryGet(o.agents, f.task.agentId)
      r     == createTask(o.tasks, o.agentTasks,
                          [assignee |-> f.mentions[f.i], assignedBy |-> f.mentions[f.i],
                           dependencies |-> {}], h)
      o1    == [o EXCEPT !.tasks = r.tasks, !.agentTasks = r.agentTasks]
  IN IF r.threw THEN rejects(o1, k)
     ELSE IF f.i < Len(f.mentions) THEN [o1 EXCEPT !.loops[k].i = @ + 1]
     ELSE routing(o1, k, agent, f.mentions, f.task.topicId)

\* processAgentOutput after the createTask of mention i resolves
createReturns(o, k, h) ==
  LET f     == o.loops[k]
      agent == RegistryGet(o.agents, f.task.agentId)
      r     == createTask(o.tasks, o.agentTasks,
                          [assignee |-> f.mentions[f.i], assignedBy |-> agent.id,
                           dependencies |-> {}], h)
      o1    == [o EXCEPT !.tasks = r.tasks, !.agentTasks = r.agentTasks]
  IN IF r.threw THEN rejects(o1, k)
     ELSE IF f.i < Len(f.mentions) THEN [o1 EXCEPT !.loops[k].i = @ + 1]
     ELSE routing(o1, k, agent, f.mentions, f.task.topicId)

\* input.trim()
trim(input) == IF input \in {"", " "} THEN "" ELSE input

\* handleHumanInput once the session exists
\* a plausible slip: the turn is enqueued and left to whichever loop runs
handleHumanInput_NoDrain(o, input, topicId) ==
  IF Len(trim(input)) = 0 /\ ~o.awaiting THEN o
  ELSE LET o1   == IF Len(trim(input)) > 0 THEN [o EXCEPT !.awaiting = FALSE] ELSE o
           o2   == appendEvent(o1, [kind |-> "message", authorId |-> "human",
                                    topicId |-> topicId, body |-> input])
           lead == findTeamLead(teamConfig)
       IN IF lead # <<>>
          THEN schedulerEnqueue(o2, Turn(lead[1].id, "human", NoAgent, now))
          ELSE o2

handleHumanInput(o, input, topicId) ==
  IF Len(trim(input)) = 0 /\ ~o.awaiting THEN o
  ELSE LET o1   == IF Len(trim(input)) > 0 THEN [o EXCEPT !.awaiting = FALSE] ELSE o
           o2   == appendEvent(o1, [kind |-> "message", authorId |-> "human",
                                    topicId |-> topicId, body |-> input])
           lead == findTeamLead(teamConfig)
           o3   == IF lead # <<>>
                   THEN schedulerEnqueue(o2, Turn(lead[1].id, "human", NoAgent, now))
                   ELSE o2
       IN runLoop(o3)

-----------------------------------------------------------------------------
(* Orchestrator: the steps of a session *)

Apply(o) ==
  /\ queue' = o.queue
  /\ tasks' = o.tasks
  /\ agentTasks' = o.agentTasks
  /\ activeAgents' = o.active
  /\ resourceLocks' = o.locks
  /\ agents' = o.agents
  /\ processing' = o.processing
  /\ awaitingHumanInput' = o.awaiting
  /\ lastAgentMessages' = o.last
  /\ simulatedFallback' = o.fallback
  /\ eventLog' = o.log
  /\ loops' = o.loops
  /\ spoken' = o.spoken
  /\ calls' = o.calls

\* what a step reports of itself
Report(op, agentId, o) ==
  [op |-> op, agentId |-> agentId, appended |-> o.appended, enqueued |-> o.enqueued,
   dispatched |-> o.dispatched, threw |-> o.threw]

\* a loop is between two awaits: it runs on before any outside call is served
Running == \E k \in 1..Len(loops) : loops[k].pc = "head"

Initialized == agents # {}

\* initialize(): the team is created, the session and the scheduler are new,
\* the lead gets the first turn and the loop is started
Initialize ==
  /\ ~Initialized /\ ~Running
  /\ createTeam(teamConfig) # {}
  /\ findTeamLead(teamConfig) # <<>>
  /\ LET c  == construct(teamConfig)
         o0 == [Cur EXCEPT !.agents = createTeam(teamConfig), !.log = <<>>,
                           !.queue = <<>>]
         o1 == systemMessage(o0, TopicId, "Project initialized")
         o2 == [o1 EXCEPT !.queue = scheduleInitialTurn(@, c.teamLeadId, now),
                          !.enqueued = scheduleInitialTurn(<<>>, c.teamLeadId, now)]
         o3 == runLoop(o2)
     IN /\ teamIndex' = c.teamIndex
        /\ teamLeadId' = c.teamLeadId
        /\ Apply(o3)
        /\ lastOp' = Report("initialize", NoAgent, o3)
  /\ UNCHANGED <<maxParallelAgents, now, scen, teamConfig, topics, toolVars>>

OrchFrame == UNCHANGED <<maxParallelAgents, teamIndex, teamLeadId, now, scen, teamConfig,
                        topics, toolVars>>

HumanInputs == {"", "go on"}

\* handleHumanInput(input); before initialize() there is no session to record
\* the message in and the call throws after the flag is cleared
HumanInput(input) ==
  /\ calls.human < MaxHumanInputs /\ ~Running
  /\ LET o0 == [Cur EXCEPT !.calls.human = @ + 1]
         o1 == IF Initialized THEN handleHumanInput(o0, input, TopicId)
               ELSE IF Len(trim(input)) > 0 THEN [o0 EXCEPT !.awaiting = FALSE]
               ELSE o0
     IN /\ Apply(o1)
        /\ lastOp' = [op |-> "handleHumanInput", input |-> input, appended |-> o1.appended,
                      enqueued |-> o1.enqueued, dispatched |-> o1.dispatched, threw |-> o1.threw]
  /\ OrchFrame

LoopNext(k) ==
  /\ loops[k].pc = "head"
  /\ queue = <<>> \/ calls.agent < MaxAgentCalls
  /\ LET o1 == loopNext(Cur, k)
     IN \E o \in {o1} :
          /\ Apply(o)
          /\ lastOp' = Report(IF queue = <<>> THEN "loop ends" ELSE "dequeue",
                            IF queue = <<>> THEN NoAgent ELSE Head(queue).agentId, o)
  /\ OrchFrame

\* the history of outputs: per agent the latest sanitized text (text) and the
\* latest one that was not empty (said)
LastSaid(h, id) == IF LastHas(h, id) THEN (CHOOSE e \in h : e.id = id).said ELSE ""
Heard(h, id, text) ==
  LastDelete(h, id) \cup
    {[id |-> id, text |-> text, said |-> IF text = "" THEN LastSaid(h, id) ELSE text]}

\* agent.execute() resolves with a message
AgentResponds(k, content) ==
  /\ loops[k].pc = "agent"
  /\ LET task  == loops[k].task
         agent == RegistryGet(agents, task.agentId)
         o0    == [Cur EXCEPT !.spoken = Heard(@, agent.id, sanitizeAgentContent(content))]
         o1    == finally(processAgentOutput(o0, k, agent, content, task), k)
     IN /\ content \in ContentsOf(agent.kind)
        /\ \E o \in {o1} :
             /\ Apply(o)
             /\ lastOp' = [op |-> "agent responds", agentId |-> agent.id,
                      appended |-> o.appended, enqueued |-> o.enqueued,
                      dispatched |-> o.dispatched, threw |-> o.threw,
                      content |-> content,
                      sanitized |-> sanitizeAgentContent(content),
                      previous |-> IF LastHas(spoken, agent.id)
                                   THEN <<LastGet(spoken, agent.id)>> ELSE <<>>,
                      said |-> LastSaid(spoken, agent.id),
                      mentions |-> SelectSeq(mentionPattern(content),
                                             LAMBDA id : RegistryHas(agents, id)),
                      topicId |-> task.topicId,
                      kind |-> agent.kind]
  /\ OrchFrame

\* agent.execute() rejects
AgentThrows(k) ==
  /\ loops[k].pc = "agent"
  /\ LET o1 == finally(agentThrows(Cur, k), k)
     IN /\ Apply(o1)
        /\ lastOp' = [op |-> "agent throws", agentId |-> loops[k].task.agentId,
                      topicId |-> loops[k].task.topicId, appended |-> o1.appended,
                      enqueued |-> o1.enqueued, dispatched |-> o1.dispatched, threw |-> o1.threw]
  /\ OrchFrame

\* toolService.executeTool() resolves
ToolReturns(k, success) ==
  /\ loops[k].pc = "tool"
  /\ LET o1 == finally(toolReturns(Cur, k, success), k)
     IN \E o \in {o1} :
          /\ Apply(o)
          /\ lastOp' = [op |-> "tool returns", agentId |-> loops[k].task.agentId,
                      topicId |-> loops[k].task.topicId, success |-> success,
                      appended |-> o.appended, enqueued |-> o.enqueued,
                      dispatched |-> o.dispatched, threw |-> o.threw]
  /\ OrchFrame

\* toolService.executeTool() rejects: tool.execute() threw
ToolThrows(k) ==
  /\ loops[k].pc = "tool"
  /\ LET o1 == rejects(Cur, k)
     IN /\ Apply(o1)
        /\ lastOp' = [op |-> "tool throws", agentId |-> loops[k].task.agentId,
                      topicId |-> loops[k].task.topicId, appended |-> o1.appended,
                      enqueued |-> o1.enqueued, dispatched |-> o1.dispatched,
                      threw |-> o1.threw]
  /\ OrchFrame

CompleteReturns(k, h) ==
  /\ loops[k].pc = "complete"
  /\ LET o1 == finally(completeReturns(Cur, k, h), k)
     IN \E o \in {o1} :
          /\ Apply(o)
          /\ lastOp' = [op |-> "tasks completed", agentId |-> loops[k].task.agentId,
                      topicId |-> loops[k].task.topicId,
                      appended |-> o.appended, enqueued |-> o.enqueued,
                      dispatched |-> o.dispatched, threw |-> o.threw]
  /\ OrchFrame

CreateReturns(k, h) ==
  /\ loops[k].pc = "create"
  /\ LET o1 == finally(createReturns(Cur, k, h), k)
     IN \E o \in {o1} :
          /\ Apply(o)
          /\ lastOp' = [op |-> "task created", agentId |-> loops[k].task.agentId,
                      topicId |-> loops[k].task.topicId, mentions |-> loops[k].mentions,
                      i |-> loops[k].i,
                      appended |-> o.appended, enqueued |-> o.enqueued,
                      dispatched |-> o.dispatched, threw |-> o.threw]
  /\ OrchFrame

\* an Orchestrator constructed for a team, then initialize() and human input
\* in any order, with whatever the agents, the tools and the hooks answer
InitOrch ==
  /\ activeAgents = {}
  /\ resourceLocks = {}
  /\ maxParallelAgents = DefaultMaxParallelAgents
  /\ tasks = <<>>
  /\ agentTasks = <<>>
  /\ teamIndex = <<>>
  /\ teamLeadId = NoAgent
  /\ queue = <<>>
  /\ now = 0
  /\ lastOp = [op |-> "new"]
  /\ scen = [pc |-> "off"]
  /\ \E role \in SecondRoles : OrchestratorNew(OrchTeam(role))
  /\ NoSession
  /\ NoToolService

Loops == 1..Len(loops)

NextOrch ==
  \/ Initialize
  \/ \E input \in HumanInputs : HumanInput(input)
  \/ \E k \in Loops : LoopNext(k)
  \/ \E k \in Loops, content \in LiveContents \cup SimulatedContents : AgentResponds(k, content)
  \/ \E k \in Loops : AgentThrows(k)
  \/ \E k \in Loops, success \in BOOLEAN : ToolReturns(k, success)
  \/ \E k \in Loops : ToolThrows(k)
  \/ \E k \in Loops, h \in HookOutcomes : CompleteReturns(k, h)
  \/ \E k \in Loops, h \in HookOutcomes : CreateReturns(k, h)

SpecOrch == InitOrch /\ [][NextOrch]_vars

\* the lock tables the resource check of processAgentOutput is applied to:
\* empty, as the sequential loop leaves it, and with a key of the file the
\* agents write held by an agent outside the turn
HeldTables ==
  {{}, {[resourceId |-> "file:a.ts", agentId |-> StrangerId]}}

InitHeld ==
  /\ activeAgents = {}
  /\ resourceLocks \in HeldTables
  /\ maxParallelAgents = DefaultMaxParallelAgents
  /\ tasks = <<>>
  /\ agentTasks = <<>>
  /\ teamIndex = <<>>
  /\ teamLeadId = NoAgent
  /\ queue = <<>>
  /\ now = 0
  /\ lastOp = [op |-> "new"]
  /\ scen = [pc |-> "off"]
  /\ OrchestratorNew(OrchTeam("Developer"))
  /\ NoSession
  /\ NoToolService

SpecHeld == InitHeld /\ [][NextOrch]_vars

-----------------------------------------------------------------------------
(* Claims about the TaskManager *)

Statuses == {"pending", "in_progress", "completed", "failed"}
TaskOps  == {"createTask", "startTask", "completeTask", "completeTasksForAgent", "failTask"}

\* the transitions of pending -> in_progress -> {completed, failed}
AllowedTransitions ==
  {<<"pending", "in_progress">>, <<"in_progress", "completed">>, <<"in_progress", "failed">>}

\* C4: whatever the sequence of createTask, startTask, completeTask,
\* completeTasksForAgent and failTask, a task changes status only along
\* pending -> in_progress -> completed | failed: it never skips in_progress,
\* never leaves completed or failed, never returns to pending.
C4_StatusMonotonic ==
  [][ \A id \in 1..Len(tasks) :
        tasks'[id].status # tasks[id].status =>
          <<tasks[id].status, tasks'[id].status>> \in AllowedTransitions
    ]_vars

\* every id of the list names an existing task whose status is completed
DepsAllCompleted(ts, id) ==
  \A d \in ts[id].dependencies : d \in 1..Len(ts) /\ ts[d].status = "completed"

\* C5: for an existing task t, startTask(t) returns true and sets t to
\* in_progress iff every id in t's dependency list names an existing completed
\* task; otherwise it returns false and changes no status. So a task enters
\* in_progress only while all its dependencies are completed.
C5_StartIffDepsCompleted ==
  [][ /\ lastOp'.op = "startTask" =>
           IF DepsAllCompleted(tasks, lastOp'.id)
           THEN lastOp'.ret = TRUE /\ tasks'[lastOp'.id].status = "in_progress"
           ELSE lastOp'.ret = FALSE /\ tasks' = tasks
      /\ \A id \in 1..Len(tasks) :
           (tasks[id].status # "in_progress" /\ tasks'[id].status = "in_progress")
             => DepsAllCompleted(tasks, id)
    ]_vars

\* startTask has just succeeded for a task that has dependencies
C5_Witness ==
  /\ lastOp.op = "startTask"
  /\ lastOp.ret = TRUE
  /\ tasks[lastOp.id].dependencies # {}
  /\ tasks[lastOp.id].status = "in_progress"

\* C6, as stated: startTask(T2), completeTask(T1, result), startTask(T2) on the
\* newly created T1 and T2 = [T1] return false, true, true.
C6_ScenarioAsStated ==
  (scen.pc = "done" /\ ~scen.startedT1) => scen.rets = <<FALSE, TRUE, TRUE>>

\* C6, amended: the three calls return false, false, false, because
\* completeTask rejects T1 while it is pending; with startTask(T1) (which
\* returns true) made before completeTask(T1) they return false, true, true.
C6_ScenarioAmended ==
  scen.pc = "done" =>
    IF scen.startedT1
    THEN scen.retStartT1 = TRUE /\ scen.rets = <<FALSE, TRUE, TRUE>>
    ELSE scen.rets = <<FALSE, FALSE, FALSE>>

\* the scenario has run to its end without startTask(T1), after a history in
\* which another task was created
C6_Witness ==
  /\ scen.pc = "done"
  /\ ~scen.startedT1
  /\ scen.t1 > 1

\* C7: completeTasksForAgent(a) changes exactly the tasks assigned to a that
\* are pending or in_progress, each to completed; afterwards a has no active
\* task and an empty index; every other task is unchanged.
C7_BulkCompleteExactlyActive ==
  [][ lastOp'.op = "completeTasksForAgent" =>
        /\ \A id \in 1..Len(tasks) :
             IF tasks[id].assignee = lastOp'.agent
                /\ tasks[id].status \in {"pending", "in_progress"}
             THEN tasks'[id].status = "completed"
             ELSE tasks'[id] = tasks[id]
        /\ ~hasActiveTask(tasks', agentTasks', lastOp'.agent)
        /\ IndexGet(agentTasks', lastOp'.agent) = {}
    ]_vars

\* the operation of a step, evaluated again on the state before the step with
\* the hook outcome h
SameCall(ts, idx, op, created, h) ==
  CASE op.op = "createTask" ->
         createTask(ts, idx, [assignee |-> created.assignee,
                              assignedBy |-> created.assignedBy,
                              dependencies |-> created.dependencies], h)
    [] op.op = "startTask"    -> startTask(ts, idx, op.id, h)
    [] op.op = "completeTask" -> completeTask(ts, idx, op.id, h)
    [] op.op = "failTask"     -> failTask(ts, idx, op.id, h)
    [] op.op = "completeTasksForAgent" ->
         [completeTasksForAgent(ts, idx, op.agent, h) EXCEPT !.hook = h] @@ [ret |-> TRUE]

-----------------------------------------------------------------------------
(* Scheduler claims *)

\* the elements of q at the positions in S, in queue order
RECURSIVE PickSeq(_, _, _)
PickSeq(q, S, i) ==
  IF i > Len(q) THEN <<>>
  ELSE (IF i \in S THEN <<q[i]>> ELSE <<>>) \o PickSeq(q, S, i + 1)

\* after is before with new turns put in at the positions S
InsertedAt(before, after, S) ==
  PickSeq(after, (1..Len(after)) \ S, 1) = before

\* the positions of the members that can review the author: another member
\* with a level whose rank is strictly greater than the author's
Superiors(idx, authorId) ==
  {i \in 1..Len(idx) :
     /\ idx[i].id # authorId
     /\ idx[i].level # NoLevel
     /\ levelRank[idx[i].level] > levelRank[idx[IndexOf(idx, authorId)].level]}

\* the superiors of the lowest rank
LowestSuperiors(idx, authorId) ==
  {i \in Superiors(idx, authorId) :
     \A j \in Superiors(idx, authorId) :
       levelRank[idx[i].level] <= levelRank[idx[j].level]}

\* who the review goes to, NoAgent for nobody
ReviewTarget(idx, lead, authorId) ==
  IF ~IndexHas(idx, authorId) THEN NoAgent
  ELSE IF idx[IndexOf(idx, authorId)].level = NoLevel THEN NoAgent
  ELSE IF Superiors(idx, authorId) # {}
  THEN idx[CHOOSE i \in LowestSuperiors(idx, authorId) :
             \A j \in LowestSuperiors(idx, authorId) : i <= j].id
  ELSE IF lead # authorId THEN lead
  ELSE NoAgent

\* C9: scheduleReviewIfNeeded(topic, author) enqueues nothing when the author
\* is unknown or has no level; otherwise it enqueues exactly one review turn
\* (reason review, metadata.authorId = author) for the member other than the
\* author whose rank is the lowest of those strictly above the author's, the
\* first in roster order on ties; with no such member the turn goes to the
\* team lead, or nothing is enqueued when the lead is the author.
C9_ReviewGoesToLowestSuperior ==
  [][lastOp'.op = "scheduleReviewIfNeeded" =>
       LET authorId == lastOp'.authorId
           target   == ReviewTarget(teamIndex, teamLeadId, authorId)
       IN IF target = NoAgent THEN queue' = queue
          ELSE \E p \in 1..Len(queue') :
                 /\ InsertedAt(queue, queue', {p})
                 /\ queue'[p].type = "agent_turn"
                 /\ queue'[p].agentId = target
                 /\ queue'[p].topicId = TopicId
                 /\ queue'[p].reason = "review"
                 /\ queue'[p].metadata = authorId]_vars

\* a review was scheduled behind a pending turn, for the first in roster
\* order of two superiors that tie on the lowest rank
C9_Witness ==
  /\ lastOp.op = "scheduleReviewIfNeeded"
  /\ IndexHas(teamIndex, lastOp.authorId)
  /\ teamIndex[IndexOf(teamIndex, lastOp.authorId)].level # NoLevel
  /\ Cardinality(LowestSuperiors(teamIndex, lastOp.authorId)) = 2
  /\ Len(queue) = 2
  /\ queue[2].reason = "review"
  /\ queue[2].metadata = lastOp.authorId
  /\ queue[2].agentId = ReviewTarget(teamIndex, teamLeadId, lastOp.authorId)
  /\ queue[2].agentId # teamLeadId

\* the ids of a mention list that are in the roster, in list order
RosterMentions(idx, mentions) ==
  SelectSeq(mentions, LAMBDA id : IndexHas(idx, id))

\* C10: one scheduleMentions call enqueues one mention turn per listed id
\* that is in the roster and none for the others, and the queue, which
\* dequeue() drains from its head, holds those turns in the order of the
\* list, whatever the clock read during the call and whatever else is
\* pending.
C10_MentionsKeepListOrder ==
  [][/\ lastOp'.op = "scheduleMentions" =>
          LET ids == RosterMentions(teamIndex, lastOp'.mentions)
          IN \E S \in SUBSET (1..Len(queue')) :
               LET new == PickSeq(queue', S, 1)
               IN /\ Len(new) = Len(ids)
                  /\ \A k \in 1..Len(ids) :
                       /\ new[k].type = "agent_turn"
                       /\ new[k].agentId = ids[k]
                       /\ new[k].topicId = TopicId
                       /\ new[k].reason = "mention"
                  /\ InsertedAt(queue, queue', S)
     /\ lastOp'.op = "dequeue" =>
          IF queue = <<>> THEN lastOp'.ret = <<>> /\ queue' = queue
          ELSE lastOp'.ret = <<Head(queue)>> /\ queue' = Tail(queue)]_vars

\* two different members were mentioned in one call, against roster order,
\* with both clock readings equal, while a turn of another call was pending
\* with the timestamp of the second mention
C10_Witness ==
  /\ lastOp.op = "scheduleMentions"
  /\ Len(lastOp.mentions) = 2
  /\ IndexHas(teamIndex, lastOp.mentions[1])
  /\ IndexHas(teamIndex, lastOp.mentions[2])
  /\ IndexOf(teamIndex, lastOp.mentions[1]) > IndexOf(teamIndex, lastOp.mentions[2])
  /\ Len(queue) = 3
  /\ queue[1].agentId = lastOp.mentions[1]
  /\ queue[3].agentId = lastOp.mentions[2]
  /\ queue[1].reason = "mention"
  /\ queue[3].reason = "mention"
  /\ queue[1].timestamp = now
  /\ queue[2].timestamp = now + 1
  /\ queue[3].timestamp = now + 1

\* the timestamps of q never decrease from head to tail
Sorted(q) == \A i \in 1..Len(q) : \A j \in 1..Len(q) : i < j => q[i].timestamp <= q[j].timestamp

\* C11: under any sequence of enqueue and dequeue the pending list stays
\* sorted by non-decreasing timestamp; enqueue puts the turn behind every
\* pending turn whose timestamp is not greater and before every later one, and
\* dequeue returns and removes the head, whose timestamp is minimal; so turns
\* of equal timestamp leave in the order they were enqueued.
C11_SortedFifoQueue ==
  [][/\ Sorted(queue')
     /\ lastOp'.op = "enqueue" =>
          \E p \in 1..Len(queue') :
            /\ InsertedAt(queue, queue', {p})
            /\ queue'[p] = lastOp'.task
            /\ \A i \in 1..Len(queue') :
                 /\ i < p => queue'[i].timestamp <= lastOp'.task.timestamp
                 /\ i > p => queue'[i].timestamp > lastOp'.task.timestamp
     /\ lastOp'.op = "dequeue" =>
          IF queue = <<>> THEN lastOp'.ret = <<>> /\ queue' = queue
          ELSE /\ lastOp'.ret = <<queue[1]>>
               /\ queue' = Tail(queue)
               /\ \A i \in 1..Len(queue) : queue[1].timestamp <= queue[i].timestamp]_vars

\* a turn was enqueued with the timestamp of a different pending turn and
\* stands behind it, ahead of a turn with a later timestamp
C11_Witness ==
  /\ lastOp.op = "enqueue"
  /\ Len(queue) = 3
  /\ queue[2] = lastOp.task
  /\ queue[1] # lastOp.task
  /\ queue[1].timestamp = lastOp.task.timestamp
  /\ queue[3].timestamp > lastOp.task.timestamp

\* the roles of LeadRoleStrings that contain 'team lead' when case is ignored
NamesTeamLead == {"Team Lead", "assistant team leader"}

\* the id of the first entry whose role names the team lead, else of the
\* first entry, else NoAgent
LeadOf(members) ==
  IF \E i \in 1..Len(members) : members[i].role \in NamesTeamLead
  THEN members[CHOOSE i \in 1..Len(members) :
                 /\ members[i].role \in NamesTeamLead
                 /\ \A j \in 1..(i - 1) : members[j].role \notin NamesTeamLead].id
  ELSE IF Len(members) > 0 THEN members[1].id
  ELSE NoAgent

\* C12: the Scheduler's team lead is the first roster entry whose role matches
\* 'team lead' in either case, or the first entry when none matches;
\* scheduleInitialTurn enqueues exactly one init turn for that member and
\* nothing when the roster is empty; Orchestrator.findTeamLead names the same
\* member.
C12_LeadIsFirstMatch ==
  [][/\ teamLeadId' = LeadOf(teamConfig')
     /\ lastOp'.op = "findTeamLead" =>
          IF teamLeadId = NoAgent THEN lastOp'.ret = <<>>
          ELSE Len(lastOp'.ret) = 1 /\ lastOp'.ret[1].id = teamLeadId
     /\ lastOp'.op = "scheduleInitialTurn" =>
          IF teamConfig = <<>> THEN queue' = queue
          ELSE \E p \in 1..Len(queue') :
                 /\ InsertedAt(queue, queue', {p})
                 /\ queue'[p].type = "agent_turn"
                 /\ queue'[p].agentId = LeadOf(teamConfig)
                 /\ queue'[p].topicId = TopicId
                 /\ queue'[p].reason = "init"]_vars

\* the initial turn was scheduled for the second member, the first of two
\* members whose roles name the team lead in different spellings
C12_Witness ==
  /\ lastOp.op = "scheduleInitialTurn"
  /\ Len(teamConfig) = 3
  /\ teamConfig[1].role \notin NamesTeamLead
  /\ teamConfig[2].role = "assistant team leader"
  /\ teamConfig[3].role = "Team Lead"
  /\ Len(queue) = 1
  /\ queue[1].reason = "init"
  /\ queue[1].agentId = teamConfig[2].id

-----------------------------------------------------------------------------
(* Admission claims *)

\* the agent is active already, or as many agents are active as may be
Refused(active, maxP, agentId) ==
  agentId \in active \/ Cardinality(active) = maxP

\* C13: under any sequence of markAgentActive and markAgentIdle the number of
\* active agents never exceeds the configured maximum; canAgentStart(a) is
\* false exactly when a is active already or the active set is at capacity;
\* markAgentActive(a) adds a, and returns true, exactly when canAgentStart(a)
\* is true, and otherwise changes nothing.
C13_ActiveWithinCapacity ==
  [][/\ Cardinality(activeAgents') <= maxParallelAgents'
     /\ lastOp'.op = "canAgentStart" =>
          /\ lastOp'.ret = ~Refused(activeAgents, maxParallelAgents, lastOp'.agent)
          /\ activeAgents' = activeAgents
     /\ lastOp'.op = "markAgentActive" =>
          IF Refused(activeAgents, maxParallelAgents, lastOp'.agent)
          THEN lastOp'.ret = FALSE /\ activeAgents' = activeAgents
          ELSE lastOp'.ret = TRUE /\ activeAgents' = activeAgents \cup {lastOp'.agent}
     /\ lastOp'.op = "markAgentIdle" =>
          activeAgents' = activeAgents \ {lastOp'.agent}]_vars

\* markAgentActive has just refused an idle agent because the active set is
\* at its capacity
C13_Witness ==
  /\ lastOp.op = "markAgentActive"
  /\ lastOp.ret = FALSE
  /\ lastOp.agent \notin activeAgents
  /\ activeAgents # {}
  /\ Cardinality(activeAgents) = maxParallelAgents

-----------------------------------------------------------------------------
(* Claims about the Orchestrator *)

\* the loops that are inside a turn: suspended on an agent, a tool or a hook
InTurn(ls) == {k \in 1..Len(ls) : ls[k].pc # "head"}

\* C14: whatever the order of initialize() and handleHumanInput() calls, also
\* while a turn is suspended, and of the runLoop() calls made inside a turn,
\* at most one drain loop runs and at most one turn is handled at a time: a
\* turn is dequeued only when no dequeued turn is unfinished
C14_OneLoopOneTurn ==
  [][/\ Len(loops') <= 1
     /\ Cardinality(InTurn(loops')) <= 1
     /\ Cardinality(activeAgents') <= 1
     /\ lastOp'.op = "dequeue" => InTurn(loops) = {} /\ activeAgents = {}]_vars

\* human input has arrived while a turn was suspended and has enqueued a turn
C14_Witness ==
  /\ lastOp.op = "handleHumanInput"
  /\ lastOp.enqueued # <<>>
  /\ processing
  /\ InTurn(loops) # {}

\* the resource locks an agent owns
LocksOf(locks, agentId) == {l \in locks : l.agentId = agentId}

\* C15: when the handling of an admitted turn ends, however it ends, the
\* agent of the turn is not in the active set and owns no resource lock
C15_IdleAndLockFreeAtTurnEnd ==
  [][\A k \in InTurn(loops) :
       (k \notin InTurn(loops'))
         => /\ loops[k].task.agentId \notin activeAgents'
            /\ LocksOf(resourceLocks', loops[k].task.agentId) = {}]_vars

\* a file write was dispatched under a lock, the tool threw, and the turn is over
C15_Witness ==
  /\ lastOp.op = "tool throws"
  /\ Len(eventLog) > 0
  /\ eventLog[Len(eventLog)].body = SaysWrite
  /\ InTurn(loops) = {}

\* C16: an agent's sanitized text output equal to that agent's previous
\* output is not appended to the log, is not dispatched as a tool call and
\* schedules no turn; one system notice is appended to the turn's topic and
\* the awaiting-human-input flag is true afterwards
C16_DuplicateSuppressed ==
  [][(lastOp'.op = "agent responds" /\ lastOp'.previous = <<lastOp'.sanitized>>)
       => /\ Len(lastOp'.appended) = 1
          /\ lastOp'.appended[1].authorId = "system"
          /\ lastOp'.appended[1].topicId = lastOp'.topicId
          /\ eventLog' = Append(eventLog, lastOp'.appended[1])
          /\ ~lastOp'.dispatched
          /\ lastOp'.enqueued = <<>>
          /\ queue' = queue
          /\ awaitingHumanInput']_vars

\* a developer has repeated a file-write call and the call was held back
C16_Witness ==
  /\ lastOp.op = "agent responds"
  /\ lastOp.previous = <<lastOp.sanitized>>
  /\ lastOp.sanitized = SaysWrite
  /\ awaitingHumanInput

\* a step that hands a turn to its agent: agent.execute() is called
InvokesAgent == calls'.agent = calls.agent + 1

\* C17: while the awaiting-human-input flag is set, from the duplicate-output
\* guardrail until non-empty human input arrives, the loop invokes no agent:
\* neither for turns already pending nor for a turn enqueued by empty input
C17_NoAgentWhileAwaiting ==
  [][awaitingHumanInput => ~InvokesAgent]_vars

\* C18: once set, the awaiting-human-input flag goes back to false only in a
\* handleHumanInput call whose input is not empty after trimming
C18_OnlyHumanInputClears ==
  [][(awaitingHumanInput /\ ~awaitingHumanInput')
       => (lastOp'.op = "handleHumanInput" /\ trim(lastOp'.input) # "")]_vars

\* how many events of a log have the given body
RECURSIVE CountBody(_, _)
CountBody(log, body) ==
  IF log = <<>> THEN 0
  ELSE (IF Head(log).body = body THEN 1 ELSE 0) + CountBody(Tail(log), body)

Ids(reg) == {a.id : a \in reg}

\* C19: an agent id is replaced by the stand-in at most once. At the agent's
\* first output whose sanitized text starts with "error:", the agent under
\* that id becomes the stand-in, its dedup history is cleared and exactly one
\* follow-up turn for the same agent and topic is enqueued; the output is not
\* dispatched as a tool call and nothing else is scheduled; every later turn
\* of the id is answered by the stand-in
C19_FallbackOnce ==
  [][/\ \A id \in Ids(agents') : CountBody(eventLog', FallbackNotice(id)) <= 1
     /\ \A id \in simulatedFallback : RegistryGet(agents', id).kind = "simulated"
     /\ (lastOp'.op = "agent responds" /\ lastOp'.agentId \in simulatedFallback)
          => lastOp'.kind = "simulated"
     /\ (/\ lastOp'.op = "agent responds"
         /\ startsWithError(lastOp'.sanitized)
         /\ CountBody(eventLog, ErrorNotice(lastOp'.agentId)) = 0)
          => /\ RegistryGet(agents', lastOp'.agentId).kind = "simulated"
             /\ lastOp'.kind = "live"
             /\ ~LastHas(lastAgentMessages', lastOp'.agentId)
             /\ Len(lastOp'.enqueued) = 1
             /\ lastOp'.enqueued[1].agentId = lastOp'.agentId
             /\ lastOp'.enqueued[1].topicId = lastOp'.topicId
             /\ lastOp'.enqueued[1].reason = "followup"
             /\ Len(queue') = Len(queue) + 1
             /\ ~lastOp'.dispatched
             /\ \A i \in 1..Len(lastOp'.appended) :
                  lastOp'.appended[i].authorId = "system"]_vars

\* the follow-up turn of a replaced agent has been answered by the stand-in
C19_Witness ==
  /\ lastOp.op = "agent responds"
  /\ lastOp.kind = "simulated"
  /\ lastOp.agentId \in simulatedFallback
  /\ CountBody(eventLog, FallbackNotice(lastOp.agentId)) = 1

\* C20: when agent.execute() throws, exactly one system message is appended
\* to the turn's topic, no turn is enqueued, tasks and locks stay as they are,
\* the agent is idle afterwards, and the loop's next step takes the next
\* pending turn
C20_AgentThrowDropsTurn ==
  [][/\ lastOp'.op = "agent throws"
          => /\ Len(lastOp'.appended) = 1
             /\ lastOp'.appended[1].authorId = "system"
             /\ lastOp'.appended[1].topicId = lastOp'.topicId
             /\ eventLog' = Append(eventLog, lastOp'.appended[1])
             /\ lastOp'.enqueued = <<>>
             /\ queue' = queue
             /\ tasks' = tasks /\ agentTasks' = agentTasks
             /\ resourceLocks' = resourceLocks
             /\ lastOp'.agentId \notin activeAgents'
             /\ processing' /\ Len(loops') = 1 /\ loops'[1].pc = "head"
     /\ (lastOp.op = "agent throws" /\ queue # <<>>)
          => /\ lastOp'.op = "dequeue"
             /\ lastOp'.agentId = Head(queue).agentId
             /\ queue' = Tail(queue)]_vars

\* an agent has thrown while another turn was pending
C20_Witness ==
  /\ lastOp.op = "agent throws"
  /\ queue # <<>>
  /\ calls.agent < MaxAgentCalls

\* the step is an agent's answer that has the tool-call syntax with an
\* argument payload that is not valid JSON
MalformedCall ==
  /\ lastOp'.op = "agent responds"
  /\ toolCallPattern(lastOp'.content).match
  /\ ~toolCallPattern(lastOp'.content).parses

\* what follows a malformed call: nothing dispatched, locks and tasks as they
\* were, a system notice on the topic and one follow-up turn for the agent
ParseErrorHandled ==
  /\ ~lastOp'.dispatched
  /\ resourceLocks' = resourceLocks
  /\ tasks' = tasks /\ agentTasks' = agentTasks
  /\ Len(lastOp'.appended) = 1
  /\ lastOp'.appended[1].authorId = "system"
  /\ lastOp'.appended[1].topicId = lastOp'.topicId
  /\ lastOp'.appended[1].body = "Error parsing tool arguments"
  /\ lastOp'.enqueued = <<Turn(lastOp'.agentId, "followup", NoAgent, now)>>
  /\ lastOp'.enqueued[1].topicId = lastOp'.topicId
  /\ Len(queue') = Len(queue) + 1

\* C21 (as stated): whenever an agent output has the tool-call syntax and a
\* payload that is not valid JSON, no tool is dispatched, no lock is acquired,
\* no task changes, a system error notice is appended to the topic and exactly
\* one follow-up turn for the same agent and topic is enqueued
C21_MalformedArgsRetried ==
  [][MalformedCall => ParseErrorHandled]_vars

\* C21 (amended): the same, for a malformed call whose text differs from the
\* agent's latest non-empty output; a repeat is held back by the duplicate
\* guardrail before the payload is parsed, and then no turn is enqueued
C21_MalformedArgsRetriedUnlessRepeat ==
  [][(MalformedCall /\ lastOp'.said # lastOp'.sanitized) => ParseErrorHandled]_vars

\* an agent has sent a malformed call for the first time
C21_Witness ==
  /\ lastOp.op = "agent responds"
  /\ lastOp.content = SaysBadArgs
  /\ lastOp.said # lastOp.sanitized
  /\ Len(lastOp.enqueued) = 1

\* the role the team configuration gives a member
RoleOf(id) == teamConfig[CHOOSE i \in 1..Len(teamConfig) : teamConfig[i].id = id].role

\* the step hands a file_system call with action write to the tool service
DispatchesWrite ==
  /\ lastOp'.op = "agent responds"
  /\ lastOp'.dispatched
  /\ toolCallPattern(lastOp'.content).toolName = "file_system"
  /\ toolCallPattern(lastOp'.content).action = "write"

\* an executeTool call for a file write is outstanding
WriteInFlight(ls) ==
  \E k \in 1..Len(ls) :
    /\ ls[k].pc = "tool"
    /\ ls[k].call.toolName = "file_system"
    /\ ls[k].call.action = "write"

\* C22: a file_system call with action write reaches the tool service only
\* when the calling agent's role is neither QA nor lead and the agent has an
\* active task at that moment; no write is handed over in any other step
C22_WriteNeedsDeveloperWithTask ==
  [][/\ DispatchesWrite
          => /\ ~includesQa(RoleOf(lastOp'.agentId))
             /\ ~isTeamLead(RoleOf(lastOp'.agentId))
             /\ hasActiveTask(tasks, agentTasks, lastOp'.agentId)
     /\ (WriteInFlight(loops') /\ ~WriteInFlight(loops)) => DispatchesWrite]_vars

\* a developer holding a task has had a file write dispatched
C22_Witness ==
  /\ lastOp.op = "agent responds"
  /\ lastOp.dispatched
  /\ lastOp.content \in {SaysWrite, SaysWriteArg}
  /\ WriteInFlight(loops)
  /\ hasActiveTask(tasks, agentTasks, lastOp.agentId)

\* the only turn enqueued by the step is a follow-up for its agent and topic
OneFollowup ==
  /\ Len(lastOp'.enqueued) = 1
  /\ lastOp'.enqueued[1].agentId = lastOp'.agentId
  /\ lastOp'.enqueued[1].topicId = lastOp'.topicId
  /\ lastOp'.enqueued[1].reason = "followup"
  /\ Len(queue') = Len(queue) + 1

\* C23: after a dispatched tool call returns. On failure no task changes and
\* exactly one follow-up turn for the same agent and topic is enqueued. On
\* success nothing is enqueued until the agent's tasks are completed; then the
\* agent has no active task, every task that was active is completed, and one
\* follow-up turn is enqueued when the agent is not a lead, none when it is
C23_AfterToolReturns ==
  [][/\ (lastOp'.op = "tool returns" /\ ~lastOp'.success)
          => /\ tasks' = tasks /\ agentTasks' = agentTasks
             /\ OneFollowup
     /\ (lastOp'.op = "tool returns" /\ lastOp'.success)
          => /\ lastOp'.enqueued = <<>>
             /\ \E k \in 1..Len(loops') : loops'[k].pc = "complete"
     /\ lastOp'.op = "tasks completed"
          => /\ ~hasActiveTask(tasks', agentTasks', lastOp'.agentId)
             /\ \A id \in getActiveTasksForAgent(tasks, agentTasks, lastOp'.agentId) :
                  tasks'[id].status = "completed"
             /\ IF isTeamLead(RoleOf(lastOp'.agentId))
                THEN lastOp'.enqueued = <<>> /\ queue' = queue
                ELSE OneFollowup]_vars

\* a developer's successful tool call has completed the task it held
C23_Witness ==
  /\ lastOp.op = "tasks completed"
  /\ ~isTeamLead(RoleOf(lastOp.agentId))
  /\ \E id \in 1..Len(tasks) :
       tasks[id].assignee = lastOp.agentId /\ tasks[id].status = "completed"
  /\ Len(lastOp.enqueued) = 1

\* the step ends the handling of an agent message that is not a tool call:
\* the message is recorded in this step, or was recorded when the first of the
\* tasks it delegates was requested
PlainMessageHandled ==
  /\ InTurn(loops') = {}
  /\ \/ /\ lastOp'.op = "agent responds"
        /\ ~toolCallPattern(lastOp'.content).match
        /\ \E i \in 1..Len(lastOp'.appended) : lastOp'.appended[i].authorId = lastOp'.agentId
     \/ lastOp'.op = "task created"

\* the step is in the middle of the handling of such a message
PlainMessagePending ==
  /\ InTurn(loops') # {}
  /\ \/ /\ lastOp'.op = "agent responds"
        /\ ~toolCallPattern(lastOp'.content).match
     \/ lastOp'.op = "task created"

\* whom the message of an author with the given mentions brings a turn, and
\* why, in the order of the calls: the mentioned members, else the team lead
\* unless the author is the team lead, and then the author's reviewer
RoutingOf(authorId, mentions) ==
  LET toMentions == [i \in 1..Len(mentions) |-> <<mentions[i], "mention">>]
      toLead     == IF Len(mentions) > 0 \/ authorId = teamLeadId THEN <<>>
                    ELSE <<<<teamLeadId, "followup">>>>
      target     == ReviewTarget(teamIndex, teamLeadId, authorId)
      toReviewer == IF target = NoAgent THEN <<>> ELSE <<<<target, "review">>>>
  IN toMentions \o toLead \o toReviewer

\* C24: for an agent message without a tool call, one mention turn per valid
\* mention is scheduled in mention order; with no mention, nothing is
\* scheduled when the author is the team lead and one follow-up turn for the
\* team lead otherwise; the author's review escalation is applied in addition,
\* and nothing else is enqueued
C24_PlainMessageRouting ==
  [][/\ PlainMessageHandled
          => /\ [i \in 1..Len(lastOp'.enqueued) |->
                   <<lastOp'.enqueued[i].agentId, lastOp'.enqueued[i].reason>>]
                  = RoutingOf(lastOp'.agentId, lastOp'.mentions)
             /\ Len(queue') = Len(queue) + Len(lastOp'.enqueued)
     /\ PlainMessagePending => (lastOp'.enqueued = <<>> /\ queue' = queue)]_vars

\* the loops suspended at the given await
At(ls, pc) == {k \in 1..Len(ls) : ls[k].pc = pc}

\* C25: in the turn flow a task is created only while a lead-role agent's
\* message without a tool call that mentions roster members is handled: one
\* pending task per mention, assigned to the mentioned member by the author.
\* A task becomes completed only after a successful tool call of its
\* assignee, and no task becomes failed
C25_TaskLifecycleInTurnFlow ==
  [][/\ (tasks' # tasks \/ agentTasks' # agentTasks)
          => lastOp'.op \in {"task created", "tasks completed"}
     /\ lastOp'.op = "task created"
          => /\ isTeamLead(RoleOf(lastOp'.agentId))
             /\ \A k \in InTurn(loops) : ~loops[k].call.match
             /\ IndexHas(teamIndex, lastOp'.mentions[lastOp'.i])
             /\ tasks' = Append(tasks, [assignee     |-> lastOp'.mentions[lastOp'.i],
                                        assignedBy   |-> lastOp'.agentId,
                                        status       |-> "pending",
                                        dependencies |-> {}])
             /\ InTurn(loops') = {} <=> lastOp'.i = Len(lastOp'.mentions)
     /\ (/\ lastOp'.op = "agent responds"
         /\ ~toolCallPattern(lastOp'.content).match
         /\ \E i \in 1..Len(lastOp'.appended) : lastOp'.appended[i].authorId = lastOp'.agentId
         /\ isTeamLead(RoleOf(lastOp'.agentId)))
          => (At(loops', "create") # {} <=> Len(lastOp'.mentions) > 0)
     /\ At(loops', "create") \ At(loops, "create") # {} => lastOp'.op = "agent responds"
     /\ lastOp'.op = "tasks completed"
          => /\ Len(tasks') = Len(tasks)
             /\ \A id \in 1..Len(tasks) :
                  \/ tasks'[id] = tasks[id]
                  \/ /\ tasks[id].assignee = lastOp'.agentId
                     /\ tasks'[id] = [tasks[id] EXCEPT !.status = "completed"]
     /\ At(loops', "complete") \ At(loops, "complete") # {}
          => (lastOp'.op = "tool returns" /\ lastOp'.success)
     /\ \A id \in 1..Len(tasks') : tasks'[id].status # "failed"]_vars

\* the lead's mention of the developer has created the developer's task
C25_Witness ==
  /\ lastOp.op = "task created"
  /\ Len(tasks) = 1
  /\ tasks[1].assignee = "dev" /\ tasks[1].assignedBy = "lead"
  /\ tasks[1].status = "pending"

\* C26: on an initialized session that is not halted by the duplicate
\* guardrail, a non-empty handleHumanInput leaves the team lead's turn in the
\* queue with a drain loop in progress to take it
C26_HumanInputIsServed ==
  [][(/\ lastOp'.op = "handleHumanInput"
      /\ Initialized /\ ~awaitingHumanInput
      /\ Len(trim(lastOp'.input)) > 0)
        => /\ loops' # <<>>
           /\ \E i \in 1..Len(queue') : queue'[i].agentId = teamLeadId]_vars

\* the failures of a turn other than a throwing tool
HandledFailure ==
  \/ lastOp'.op = "agent throws"
  \/ MalformedCall
  \/ lastOp'.op = "tool returns" /\ ~lastOp'.success

\* the step wrote a message of the system into the turn's topic and no
\* exception left the drain loop
Surfaced ==
  /\ \E i \in 1..Len(lastOp'.appended) :
       /\ lastOp'.appended[i].kind = "message"
       /\ lastOp'.appended[i].authorId = "system"
       /\ lastOp'.appended[i].topicId = lastOp'.topicId
  /\ ~lastOp'.threw

\* C27: every failure while a turn is handled (the agent throws, the tool
\* arguments do not parse, the tool reports failure, the tool throws) appends
\* a message of the system to the turn's topic, and no exception leaves
\* runLoop(), which initialize and handleHumanInput await
C27_FailuresSurfaced ==
  [][(HandledFailure \/ lastOp'.op = "tool throws") => Surfaced]_vars

-----------------------------------------------------------------------------
(* SessionManager: the topics of a session and their events.  A topic is   *)
(* its status and its event list; title and summary are never read.        *)

MaxEvents == 2      \* events a session holds at most

DefaultLimit == 15

TopicIds == {"general", "design"}
NoField  == "<none>"

\* Map.has
TopicHas(t, topicId) == topicId \in DOMAIN t

\* the events stored in the session, over all topics
Stored(t) ==
  LET RECURSIVE Sum(_)
      Sum(S) == IF S = {} THEN 0
                ELSE LET x == CHOOSE y \in S : TRUE IN Len(t[x].events) + Sum(S \ {x})
  IN Sum(DOMAIN t)

createTopic(t, topicId) ==
  [x \in DOMAIN t \cup {topicId} |->
     IF x = topicId THEN [status |-> "pending", events |-> <<>>] ELSE t[x]]

\* the topics after getTopic(topicId); the topic returned is the one stored
\* under topicId
getTopic(t, topicId) == IF ~TopicHas(t, topicId) THEN createTopic(t, topicId) ELSE t

\* event.topicId || 'general'
TopicOf(event) == IF event.topicId = "" THEN "general" ELSE event.topicId

\* a plausible slip: every kind of event takes a pending topic into progress
appendEventToTopic_AnyKind(t, event) ==
  LET id == TopicOf(event)
      t1 == getTopic(t, id)
      t2 == [t1 EXCEPT ![id].events = Append(@, event)]
      t3 == IF t2[id].status = "pending" THEN [t2 EXCEPT ![id].status = "in_progress"] ELSE t2
  IN IF event.kind = "message"
     THEN IF event.level = "junior" THEN [t3 EXCEPT ![id].status = "review"] ELSE t3
     ELSE IF event.kind = "status" THEN [t2 EXCEPT ![id].status = event.status]
     ELSE t3

\* SessionManager.appendEvent
appendEventToTopic(t, event) ==
  LET id == TopicOf(event)
      t1 == getTopic(t, id)
      t2 == [t1 EXCEPT ![id].events = Append(@, event)]
  IN IF event.kind = "message"
     THEN LET t3 == IF t2[id].status = "pending"
                    THEN [t2 EXCEPT ![id].status = "in_progress"] ELSE t2
          IN IF event.level = "junior" THEN [t3 EXCEPT ![id].status = "review"] ELSE t3
     ELSE IF event.kind = "status" THEN [t2 EXCEPT ![id].status = event.status]
     ELSE t2

StatusEvent(topicId, status, n) ==
  [kind |-> "status", topicId |-> topicId, level |-> NoField, status |-> status, n |-> n]

\* a plausible slip: the status is set without the event that records it
updateTopicStatus_NoEvent(t, topicId, status, timestamp) ==
  LET t1 == getTopic(t, topicId)
  IN [t1 EXCEPT ![topicId].status = status]

updateTopicStatus(t, topicId, status, timestamp) ==
  LET t1 == getTopic(t, topicId)
  IN [t1 EXCEPT ![topicId].status = status,
                ![topicId].events = Append(@, StatusEvent(topicId, status, timestamp))]

\* Array.prototype.slice(start): a negative start counts from the end, and
\* -0 is 0
slice(arr, start) ==
  LET from == IF start < 0 THEN (IF Len(arr) + start < 0 THEN 0 ELSE Len(arr) + start)
              ELSE (IF start > Len(arr) THEN Len(arr) ELSE start)
  IN SubSeq(arr, from + 1, Len(arr))

\* SessionManager.getRecentEvents: the topics after the call and the array returned
getRecentEvents(t, topicId, limit) ==
  LET t1 == getTopic(t, topicId)
  IN [topics |-> t1, ret |-> slice(t1[topicId].events, 0 - limit)]

\* the events callers append: n tells them apart, as body and timestamp do
EventInputs(n) ==
  {[kind |-> "message", topicId |-> id, level |-> l, status |-> NoField, n |-> n] :
     id \in TopicIds \cup {""}, l \in {"junior", "principal"}}
  \cup {StatusEvent(id, "done", n) : id \in TopicIds}
  \cup {[kind |-> k, topicId |-> id, level |-> NoField, status |-> NoField, n |-> n] :
          k \in {"human_input", "tool_call", "tool_result", "handoff"}, id \in TopicIds}

Limits == (0..MaxEvents) \cup {DefaultLimit}

CreateTopic(topicId) ==
  /\ topics' = createTopic(topics, topicId)
  /\ lastOp' = [op |-> "createTopic", topicId |-> topicId]

GetTopic(topicId) ==
  /\ topics' = getTopic(topics, topicId)
  /\ lastOp' = [op |-> "getTopic", topicId |-> topicId]

AppendEvent(event) ==
  /\ topics' = appendEventToTopic(topics, event)
  /\ lastOp' = [op |-> "appendEvent", topicId |-> TopicOf(event), event |-> event]

UpdateTopicStatus(topicId, status) ==
  /\ topics' = updateTopicStatus(topics, topicId, status, Stored(topics) + 1)
  /\ lastOp' = [op |-> "updateTopicStatus", topicId |-> topicId, status |-> status]

\* limit absent: the default applies
GetRecentEvents(topicId, limit) ==
  LET r == getRecentEvents(topics, topicId, limit)
  IN /\ topics' = r.topics
     /\ lastOp' = [op |-> "getRecentEvents", topicId |-> topicId, limit |-> limit,
                   ret |-> r.ret]

\* new SessionManager(...)
InitSession ==
  /\ activeAgents = {}
  /\ resourceLocks = {}
  /\ maxParallelAgents = DefaultMaxParallelAgents
  /\ tasks = <<>>
  /\ agentTasks = <<>>
  /\ teamIndex = <<>>
  /\ teamLeadId = NoAgent
  /\ queue = <<>>
  /\ now = 0
  /\ lastOp = [op |-> "new"]
  /\ scen = [pc |-> "off"]
  /\ NoOrchestrator
  /\ topics = createTopic(<<>>, "general")
  /\ NoToolService

SessionFrame == UNCHANGED <<peVars, tmVars, schedVars, now, scen, orchVars, toolVars>>

NextSession ==
  \/ \E id \in TopicIds : CreateTopic(id) /\ SessionFrame
  \/ \E id \in TopicIds : GetTopic(id) /\ SessionFrame
  \/ \E e \in EventInputs(Stored(topics) + 1) :
       Stored(topics) < MaxEvents /\ AppendEvent(e) /\ SessionFrame
  \/ \E id \in TopicIds, s \in {"done", "blocked"} :
       Stored(topics) < MaxEvents /\ UpdateTopicStatus(id, s) /\ SessionFrame
  \/ \E id \in TopicIds, limit \in Limits : GetRecentEvents(id, limit) /\ SessionFrame

SpecSession == InitSession /\ [][NextSession]_vars

-----------------------------------------------------------------------------
(* Claims about the SessionManager *)

\* the status and the events a topic has before a step; a topic that is not
\* there yet, or that createTopic stores anew, starts from the new topic
IsNew(id)        == ~TopicHas(topics, id) \/ (lastOp'.op = "createTopic" /\ lastOp'.topicId = id)
StatusBefore(id) == IF IsNew(id) THEN "pending" ELSE topics[id].status
EventsBefore(id) == IF TopicHas(topics, id) THEN topics[id].events ELSE <<>>

\* the status the rule of the topic states gives after the step
StatusAfter(id) ==
  LET hit == lastOp'.topicId = id
  IN IF hit /\ lastOp'.op = "updateTopicStatus" THEN lastOp'.status
     ELSE IF hit /\ lastOp'.op = "appendEvent" /\ lastOp'.event.kind = "status"
     THEN lastOp'.event.status
     ELSE IF hit /\ lastOp'.op = "appendEvent" /\ lastOp'.event.kind = "message"
     THEN IF lastOp'.event.level = "junior" THEN "review"
          ELSE IF StatusBefore(id) = "pending" THEN "in_progress"
          ELSE StatusBefore(id)
     ELSE StatusBefore(id)

\* C28: a new topic is pending; a status event (appendEvent of kind status,
\* updateTopicStatus) sets the status it carries, a message takes a pending
\* topic to in_progress and a junior's message any topic to review; events of
\* the other kinds, getTopic and getRecentEvents leave every status as it was
C28_TopicStatusRule ==
  [][\A id \in DOMAIN topics' : topics'[id].status = StatusAfter(id)]_vars

\* a junior's message has taken a topic in progress to review
C28_Witness ==
  /\ lastOp.op = "appendEvent"
  /\ lastOp.event.kind = "message" /\ lastOp.event.level = "junior"
  /\ Len(topics[lastOp.topicId].events) = 2
  /\ topics[lastOp.topicId].events[1].kind = "message"
  /\ topics[lastOp.topicId].events[1].level = "principal"
  /\ topics[lastOp.topicId].status = "review"

Smaller(a, b) == IF a < b THEN a ELSE b

\* C29: getRecentEvents(topic, limit) with limit >= 0 returns the last
\* min(limit, n) of the topic's n events in insertion order and leaves the
\* stored events of the topic as they were
C29_RecentEventsWindow ==
  [][lastOp'.op = "getRecentEvents"
       => LET before == EventsBefore(lastOp'.topicId)
              n      == Len(before)
              m      == Smaller(lastOp'.limit, n)
          IN /\ lastOp'.ret = SubSeq(before, n - m + 1, n)
             /\ topics'[lastOp'.topicId].events = before]_vars

IsPrefix(s, t) == Len(s) <= Len(t) /\ SubSeq(t, 1, Len(s)) = s

\* C30: after each operation of the SessionManager every topic is still
\* there with the events it had as a prefix of its events, and appendEvent
\* puts its event at the end of the event's topic and nothing anywhere else
C30_AppendOnly ==
  [][/\ \A id \in DOMAIN topics :
          TopicHas(topics', id) /\ IsPrefix(topics[id].events, topics'[id].events)
     /\ lastOp'.op = "appendEvent"
          => \A id \in DOMAIN topics' :
               topics'[id].events = IF id = lastOp'.topicId
                                    THEN Append(EventsBefore(id), lastOp'.event)
                                    ELSE EventsBefore(id)]_vars

\* a fresh session fed the given events through appendEvent, one by one
RECURSIVE Replay(_, _)
Replay(t, events) ==
  IF events = <<>> THEN t
  ELSE Replay(appendEventToTopic(t, Head(events)), Tail(events))

FreshSession == createTopic(<<>>, "general")

\* C31: the status of a topic is the status a fresh session gives the topic
\* after the topic's stored events are replayed through appendEvent, so two
\* sessions with the same events agree on it
C31_StatusIsReplayOfEvents ==
  \A id \in DOMAIN topics :
    topics[id].status = getTopic(Replay(FreshSession, topics[id].events), id)[id].status

\* updateTopicStatus has set the status of a topic that holds a message
C31_Witness ==
  /\ lastOp.op = "updateTopicStatus"
  /\ Len(topics[lastOp.topicId].events) = 2
  /\ topics[lastOp.topicId].events[1].kind = "message"
  /\ topics[lastOp.topicId].status = "blocked"

-----------------------------------------------------------------------------
(* ToolService: the registry of tools and the audit trail.  ToolResult     *)
(* objects live in heap and arrays hold references to them, so that what a *)
(* caller does with an array or an object it was handed shows where the    *)
(* object is shared.                                                       *)

MaxToolCalls == 2   \* executeTool calls made

BuiltInTools == {"file_system", "terminal"}
ServiceTools == BuiltInTools \cup {"browser"}

registerTool(ts, name) == ts \cup {name}

\* Map.get(name) is not undefined
getTool(ts, name) == name \in ts

\* { toolName, success: false, output: '', error: `Tool '${toolName}' not found.` }
NotFound(toolName) == [toolName |-> toolName, success |-> FALSE, error |-> "not found"]

\* what a tool's execute() resolves with
ToolResult(toolName, success) ==
  [toolName |-> toolName, success |-> success, error |-> IF success THEN "" ELSE "failed"]

ToolCallsMade == Len(heap) + Cardinality(executing)

\* [...this.auditTrail]
getAuditTrail(trail) == [i \in 1..Len(trail) |-> trail[i]]

RegisterTool(name) ==
  /\ tools' = registerTool(tools, name)
  /\ lastOp' = [op |-> "registerTool", toolName |-> name]
  /\ UNCHANGED <<auditTrail, heap, executing, listed>>

\* executeTool up to its await: an unknown name is answered at once
ExecuteTool(toolName) ==
  /\ ToolCallsMade < MaxToolCalls
  /\ IF ~getTool(tools, toolName)
     THEN /\ heap' = Append(heap, NotFound(toolName))
          /\ lastOp' = [op |-> "executeTool returns", ret |-> Len(heap) + 1,
                        result |-> NotFound(toolName)]
          /\ UNCHANGED <<tools, auditTrail, executing, listed>>
     ELSE /\ executing' = executing \cup {[id |-> ToolCallsMade + 1, toolName |-> toolName]}
          /\ lastOp' = [op |-> "executeTool", toolName |-> toolName]
          /\ UNCHANGED <<tools, auditTrail, heap, listed>>

\* tool.execute() resolves: the result is pushed and returned
ToolExecuteResolves(call, success) ==
  /\ call \in executing
  /\ executing' = executing \ {call}
  /\ heap' = Append(heap, ToolResult(call.toolName, success))
  /\ auditTrail' = Append(auditTrail, Len(heap) + 1)
  /\ lastOp' = [op |-> "executeTool returns", ret |-> Len(heap) + 1,
                result |-> ToolResult(call.toolName, success)]
  /\ UNCHANGED <<tools, listed>>

\* tool.execute() throws: executeTool rejects
ToolExecuteRejects(call) ==
  /\ call \in executing
  /\ executing' = executing \ {call}
  /\ lastOp' = [op |-> "executeTool rejects", toolName |-> call.toolName]
  /\ UNCHANGED <<tools, auditTrail, heap, listed>>

GetAuditTrail ==
  /\ listed' = getAuditTrail(auditTrail)
  /\ lastOp' = [op |-> "getAuditTrail"]
  /\ UNCHANGED <<tools, auditTrail, heap, executing>>

\* the caller changes the array it was handed: listed.pop()
CallerPops ==
  /\ listed # <<>>
  /\ listed' = SubSeq(listed, 1, Len(listed) - 1)
  /\ lastOp' = [op |-> "caller pops"]
  /\ UNCHANGED <<tools, auditTrail, heap, executing>>

\* the caller changes an object of the array it was handed:
\* listed[i].success = !listed[i].success
CallerWrites(i) ==
  /\ i \in 1..Len(listed)
  /\ heap' = [heap EXCEPT ![listed[i]].success = ~@]
  /\ lastOp' = [op |-> "caller writes", i |-> i]
  /\ UNCHANGED <<tools, auditTrail, executing, listed>>

\* new ToolService(workspaceDir)
InitTools ==
  /\ activeAgents = {}
  /\ resourceLocks = {}
  /\ maxParallelAgents = DefaultMaxParallelAgents
  /\ tasks = <<>>
  /\ agentTasks = <<>>
  /\ teamIndex = <<>>
  /\ teamLeadId = NoAgent
  /\ queue = <<>>
  /\ now = 0
  /\ lastOp = [op |-> "new"]
  /\ scen = [pc |-> "off"]
  /\ NoOrchestrator
  /\ NoSession
  /\ tools = registerTool(registerTool({}, "file_system"), "terminal")
  /\ auditTrail = <<>>
  /\ heap = <<>>
  /\ executing = {}
  /\ listed = <<>>

ToolsFrame == UNCHANGED <<peVars, tmVars, schedVars, now, scen, orchVars, topics>>

NextTools ==
  \/ \E name \in ServiceTools : RegisterTool(name) /\ ToolsFrame
  \/ \E name \in ServiceTools : ExecuteTool(name) /\ ToolsFrame
  \/ \E call \in executing, success \in BOOLEAN : ToolExecuteResolves(call, success) /\ ToolsFrame
  \/ \E call \in executing : ToolExecuteRejects(call) /\ ToolsFrame
  \/ GetAuditTrail /\ ToolsFrame
  \/ CallerPops /\ ToolsFrame
  \/ \E i \in 1..Len(listed) : CallerWrites(i) /\ ToolsFrame

SpecTools == InitTools /\ [][NextTools]_vars

\* the audit trail as the results it holds
TrailResults == [i \in 1..Len(auditTrail) |-> heap[auditTrail[i]]]

\* C32: the audit trail holds every result executeTool returned, in the
\* order of return, the failure result for an unregistered name included;
\* no other step changes the trail, whatever is done with the array
\* getAuditTrail returned
C32_AuditTrailComplete ==
  [][TrailResults' = IF lastOp'.op = "executeTool returns"
                     THEN Append(TrailResults, lastOp'.result)
                     ELSE TrailResults]_vars

-----------------------------------------------------------------------------
(* Claims about what the Orchestrator logs *)

\* the step is an agent's answer that is neither held back as empty or
\* repeated nor taken as an error report
PassesGuards ==
  /\ lastOp'.op = "agent responds"
  /\ lastOp'.sanitized # ""
  /\ ~(/\ LastHas(lastAgentMessages, lastOp'.agentId)
       /\ LastGet(lastAgentMessages, lastOp'.agentId) = lastOp'.sanitized)
  /\ ~startsWithError(lastOp'.sanitized)

\* the events of the step that are the agent's own message
OwnEvents ==
  {i \in 1..Len(lastOp'.appended) :
     /\ lastOp'.appended[i].kind = "message"
     /\ lastOp'.appended[i].authorId = lastOp'.agentId
     /\ lastOp'.appended[i].body = lastOp'.sanitized}

\* C33: an agent output that passes the duplicate and the error guardrail is
\* appended to the event log exactly once, ahead of every notice the step
\* writes, be it a plain message, a dispatched tool call, a tool call with
\* malformed arguments or a tool call a role guardrail denies
C33_OutputLoggedOnce ==
  [][PassesGuards => OwnEvents = {1}]_vars

\* the step holds an agent's non-empty answer back as a repetition
Suppressed ==
  /\ lastOp'.op = "agent responds"
  /\ lastOp'.sanitized # ""
  /\ \E i \in 1..Len(lastOp'.appended) :
       /\ lastOp'.appended[i].authorId = "system"
       /\ lastOp'.appended[i].body = "repeated the same response: " \o lastOp'.sanitized

\* the messages of the agent in the event log
LoggedBy(agentId) ==
  {i \in 1..Len(eventLog) : eventLog[i].kind = "message" /\ eventLog[i].authorId = agentId}

\* C40: an answer is held back as a repetition only if it equals the body of
\* the latest message of that agent in the event log, so an answer whose
\* earlier occurrence was never logged is not held back
C40_DuplicateOnlyOfLogged ==
  [][Suppressed
       => /\ LoggedBy(lastOp'.agentId) # {}
          /\ \E i \in LoggedBy(lastOp'.agentId) :
               /\ \A j \in LoggedBy(lastOp'.agentId) : j <= i
               /\ eventLog[i].body = lastOp'.sanitized]_vars

-----------------------------------------------------------------------------
(* Further claims about the TaskManager *)

\* the tasks assigned to the agent that are neither completed nor failed
NonTerminalOf(agentId) ==
  {id \in 1..Len(tasks) :
     tasks[id].assignee = agentId /\ tasks[id].status \in {"pending", "in_progress"}}

\* C34: hasActiveTask(a) is true exactly when some task assigned to a is
\* pending or in_progress
C34_ActiveIffNonTerminal ==
  \A a \in TaskAgents : hasActiveTask(tasks, agentTasks, a) <=> NonTerminalOf(a) # {}

\* C37: a task becomes completed only while every task of its dependency
\* list exists and is completed (the dependencies are read after the call,
\* so that tasks completed by the same call count)
C37_CompletedOnlyAfterDeps ==
  [][\A id \in 1..Len(tasks) :
       (tasks[id].status # "completed" /\ tasks'[id].status = "completed")
         => DepsAllCompleted(tasks', id)]_vars

-----------------------------------------------------------------------------
(* Claims about admission in the control loop *)

\* the step is an agent's answer that gets as far as the resource check: a
\* tool call that parses and that no guardrail stops
AtResourceCheck ==
  /\ PassesGuards
  /\ toolCallPattern(lastOp'.content).match
  /\ toolCallPattern(lastOp'.content).parses
  /\ writeGuardrail(Cur, RegistryGet(agents, lastOp'.agentId),
                    toolCallPattern(lastOp'.content)) = "none"

\* C36: in the sequential loop admission never rejects: when a turn is
\* dequeued no agent is active and no lock is held, at most one agent is
\* active at a time, canAgentStart admits every dequeued turn and the
\* resource check and the lock acquisition pass for every tool call
C36_AdmissionIsNoOp ==
  [][/\ Cardinality(activeAgents') <= 1
     /\ lastOp'.op = "dequeue"
          => /\ activeAgents = {} /\ resourceLocks = {}
             /\ canAgentStart(activeAgents, maxParallelAgents, lastOp'.agentId)
             /\ lastOp'.enqueued = <<>>
     /\ AtResourceCheck
          => LET call == toolCallPattern(lastOp'.content)
             IN /\ canExecuteTool(resourceLocks, lastOp'.agentId, call.toolName, call.args)
                /\ acquireToolLocks(resourceLocks, lastOp'.agentId, call.toolName,
                                    call.args).ret
                /\ lastOp'.dispatched]_vars

\* the developer's next turn is dequeued after its tool call held a lock and
\* completed its task
C36_Witness ==
  /\ lastOp.op = "dequeue" /\ lastOp.agentId = "dev"
  /\ \E id \in 1..Len(tasks) : tasks[id].status = "completed"
  /\ \E k \in 1..Len(loops) : loops[k].pc = "agent"

\* a key the tool call derives is held by another agent before the step
Conflict ==
  LET call == toolCallPattern(lastOp'.content)
      res  == extractResourcesFromTool(call.toolName, call.args)
  IN \E i \in 1..Len(res) :
       MapHas(resourceLocks, res[i]) /\ MapGet(resourceLocks, res[i]).agentId # lastOp'.agentId

\* C35: while a tool executes for an agent, the agent and nobody else owns
\* the lock of every key the call derives; and a call that finds one of its
\* keys held by another agent at the resource check is not dispatched, a
\* notice of the system is appended to the topic and one later turn for the
\* same agent and topic is enqueued
C35_ToolRunsUnderItsLocks ==
  [][/\ \A k \in At(loops', "tool") :
          LET f   == loops'[k]
              res == extractResourcesFromTool(f.call.toolName, f.call.args)
          IN \A i \in 1..Len(res) : Owners(resourceLocks', res[i]) = {f.task.agentId}
     /\ (AtResourceCheck /\ Conflict)
          => /\ ~lastOp'.dispatched
             /\ At(loops', "tool") = {}
             /\ resourceLocks' = resourceLocks
             /\ \E i \in 1..Len(lastOp'.appended) :
                  /\ lastOp'.appended[i].authorId = "system"
                  /\ lastOp'.appended[i].topicId = lastOp'.topicId
             /\ Len(lastOp'.enqueued) = 1
             /\ lastOp'.enqueued[1].agentId = lastOp'.agentId
             /\ lastOp'.enqueued[1].topicId = lastOp'.topicId
             /\ lastOp'.enqueued[1].timestamp > now]_vars

\* the developer's write has met the lock another agent holds
C35_Witness ==
  /\ lastOp.op = "agent responds" /\ lastOp.agentId = "dev"
  /\ ~lastOp.dispatched
  /\ Len(lastOp.enqueued) = 1
  /\ lastOp.enqueued[1].timestamp = now + ConflictDelay
  /\ Owners(resourceLocks, "file:a.ts") = {StrangerId}

\* the developer's write is executing under the developer's lock
ToolUnderOwnLock ==
  /\ lastOp.op = "agent responds" /\ lastOp.agentId = "dev"
  /\ lastOp.dispatched
  /\ Owners(resourceLocks, "file:a.ts") = {"dev"}

-----------------------------------------------------------------------------
(* The control loop when every agent answers, and answers with a plain     *)
(* message: no mention, no tool call, no error prefix                      *)

PlainContents == {SaysDone, SaysDonePfx, SaysBlank}

\* teams in which nobody ranks above the lead, or the lead has no level
PlainTeams ==
  {OrchTeam(role) : role \in SecondRoles}
  \cup {<<[id |-> "lead", level |-> NoLevel, role |-> "Team Lead"],
          [id |-> "dev", level |-> "senior", role |-> "Developer"]>>,
        <<[id |-> "lead", level |-> "principal", role |-> "Team Lead"],
          [id |-> "dev", level |-> "principal", role |-> "Developer"]>>}

InitPlain ==
  /\ activeAgents = {}
  /\ resourceLocks = {}
  /\ maxParallelAgents = DefaultMaxParallelAgents
  /\ tasks = <<>>
  /\ agentTasks = <<>>
  /\ teamIndex = <<>>
  /\ teamLeadId = NoAgent
  /\ queue = <<>>
  /\ now = 0
  /\ lastOp = [op |-> "new"]
  /\ scen = [pc |-> "off"]
  /\ \E team \in PlainTeams : OrchestratorNew(team)
  /\ NoSession
  /\ NoToolService

\* the steps the loop takes by itself once every agent call returns
PlainTurnSteps ==
  \/ \E k \in Loops : LoopNext(k)
  \/ \E k \in Loops, content \in PlainContents : AgentResponds(k, content)

NextPlain ==
  \/ Initialize
  \/ \E input \in HumanInputs : HumanInput(input)
  \/ \E k \in Loops : LoopNext(k)
  \/ \E k \in Loops, content \in PlainContents : AgentResponds(k, content)

SpecPlain == InitPlain /\ [][NextPlain]_vars /\ WF_vars(PlainTurnSteps)

\* C38: with nobody ranked above the lead and only plain answers, after
\* initialize and after every handleHumanInput the loop comes to an empty
\* queue and stops; a turn of the lead schedules nothing
C38_DrainTerminates ==
  /\ (lastOp.op \in {"initialize", "handleHumanInput"})
       ~> (queue = <<>> /\ loops = <<>> /\ ~processing)
  /\ [][(lastOp'.op = "agent responds" /\ lastOp'.agentId = teamLeadId)
          => lastOp'.enqueued = <<>>]_vars

\* the loop has stopped after the lead's second turn, the one human input gave
C38_Witness ==
  /\ lastOp.op = "loop ends"
  /\ calls.agent = 2 /\ calls.human = 1
  /\ queue = <<>> /\ loops = <<>> /\ ~processing

-----------------------------------------------------------------------------
(* The control loop when every agent, tool and hook call returns without   *)
(* throwing                                                                *)

ReturningHooks == HookOutcomes \ {"rejects"}

\* the steps the loop takes by itself once every call it awaits returns
CalmTurnSteps ==
  \/ \E k \in Loops : LoopNext(k)
  \/ \E k \in Loops, content \in LiveContents \cup SimulatedContents : AgentResponds(k, content)
  \/ \E k \in Loops, success \in BOOLEAN : ToolReturns(k, success)
  \/ \E k \in Loops, h \in ReturningHooks : CompleteReturns(k, h)
  \/ \E k \in Loops, h \in ReturningHooks : CreateReturns(k, h)

NextCalm ==
  \/ Initialize
  \/ \E input \in HumanInputs : HumanInput(input)
  \/ \E k \in Loops : LoopNext(k)
  \/ \E k \in Loops, content \in LiveContents \cup SimulatedContents : AgentResponds(k, content)
  \/ \E k \in Loops, success \in BOOLEAN : ToolReturns(k, success)
  \/ \E k \in Loops, h \in ReturningHooks : CompleteReturns(k, h)
  \/ \E k \in Loops, h \in ReturningHooks : CreateReturns(k, h)

SpecCalm == InitOrch /\ [][NextCalm]_vars /\ WF_vars(CalmTurnSteps)

Queued(agentId, reason) ==
  \E i \in 1..Len(queue) : queue[i].agentId = agentId /\ queue[i].reason = reason


\* the runs are cut off after MaxAgentCalls agent calls
BudgetSpent == calls.agent >= MaxAgentCalls

\* C39: when every agent, tool and hook call returns, whenever no drain loop
\* is running the queue is empty and the flag is down; a turn leaves the
\* queue only by being dequeued from its head; and a queue that holds turns,
\* whenever they were put there, is eventually drained: every one of them is
\* dequeued
C39_NoLostWakeup ==
  /\ [](loops = <<>> => queue = <<>> /\ ~processing)
  /\ [][Len(queue') < Len(queue)
          => /\ lastOp'.op = "dequeue"
             /\ queue' = Tail(queue)
             /\ lastOp'.agentId = Head(queue).agentId]_vars
  /\ (queue # <<>>) ~> (queue = <<>> \/ BudgetSpent)

\* human input has arrived while the only loop is suspended in a call: its
\* turn is in the queue and handleHumanInput's own runLoop() returned at once
C39_Witness ==
  /\ lastOp.op = "handleHumanInput"
  /\ lastOp.enqueued # <<>>
  /\ Queued("lead", "human")
  /\ Len(loops) = 1 /\ loops[1].pc \in {"agent", "tool", "complete", "create"}
  /\ ~BudgetSpent

====
